---- MODULE Spec2Model ----
(***************************************************************************)
(* Model of the testtxt parser (package testtxt, ParseFile / state.parse). *)
(* Text is a sequence of one-character strings; the cursor s.rest is the   *)
(* remaining suffix of the document, as in the source.                     *)
(***************************************************************************)
EXTENDS Integers, Sequences, FiniteSets, TLC

VARIABLES shape, src, rest, templates, slice, el, seen, tVal, first, pc, err,
          markers, blocks, substs, peer

vars == <<shape, src, rest, templates, slice, el, seen, tVal, first, pc, err,
          markers, blocks, substs, peer>>

(***************************************************************************)
(* Bounds of the explored inputs.                                          *)
(***************************************************************************)
MaxChunks == 4

(***************************************************************************)
(* Characters and strings.                                                 *)
(***************************************************************************)
LowerSeq == <<"a","b","c","d","e","f","g","h","i","j","k","l","m",
              "n","o","p","q","r","s","t","u","v","w","x","y","z">>
UpperSeq == <<"A","B","C","D","E","F","G","H","I","J","K","L","M",
              "N","O","P","Q","R","S","T","U","V","W","X","Y","Z">>
LowerSet == {LowerSeq[i] : i \in 1..26}
UpperSet == {UpperSeq[i] : i \in 1..26}
DigitSeq == <<"0","1","2","3","4","5","6","7","8","9">>
DigitSet == {DigitSeq[i] : i \in 1..10}
Space == {" ", "\t", "\n", "\r", "\f"}

isDecimal(ch) == ch \in DigitSet

isLetter(ch) == ch \in LowerSet \/ ch \in UpperSet \/ ch = "_"

isName(n) == \A i \in 1..Len(n) : isLetter(n[i]) \/ isDecimal(n[i])

\* Go slice expression s[lo:hi] with 0-based bounds.
Slice(s, lo, hi) == SubSeq(s, lo + 1, hi)

From(s, lo) == SubSeq(s, lo + 1, Len(s))

\* bytes.IndexByte / strings.Index for a single character: 0-based, -1 if absent.
IndexByte(s, c) ==
  IF \E i \in 1..Len(s) : s[i] = c
  THEN (CHOOSE i \in 1..Len(s) : s[i] = c /\ \A j \in 1..(i-1) : s[j] # c) - 1
  ELSE -1

HasPrefixAt(s, i, p) ==
  /\ i + Len(p) - 1 <= Len(s)
  /\ \A k \in 1..Len(p) : s[i + k - 1] = p[k]

RECURSIVE TrimLeft(_)
TrimLeft(s) == IF s # <<>> /\ s[1] \in Space THEN TrimLeft(Tail(s)) ELSE s

RECURSIVE TrimRight(_)
TrimRight(s) ==
  IF s # <<>> /\ s[Len(s)] \in Space THEN TrimRight(SubSeq(s, 1, Len(s) - 1))
  ELSE s

TrimSpace(s) == TrimRight(TrimLeft(s))

TrimSuffixNL(s) ==
  IF s # <<>> /\ s[Len(s)] = "\n" THEN SubSeq(s, 1, Len(s) - 1) ELSE s

RECURSIVE Count(_, _)
Count(s, c) ==
  IF s = <<>> THEN 0 ELSE (IF s[1] = c THEN 1 ELSE 0) + Count(Tail(s), c)

ToUpperCh(ch) ==
  IF ch \in LowerSet THEN UpperSeq[CHOOSE i \in 1..26 : LowerSeq[i] = ch] ELSE ch

ToUpper(s) == [i \in 1..Len(s) |-> ToUpperCh(s[i])]

(***************************************************************************)
(* toSnakeCase: two regexp replacements, then upper-casing.                *)
(***************************************************************************)
\* Length of the run of lower-case letters of s starting at index i.
RECURSIVE LowerRun(_, _)
LowerRun(s, i) ==
  IF i <= Len(s) /\ s[i] \in LowerSet THEN 1 + LowerRun(s, i + 1) ELSE 0

\* ReplaceAllString of (.)([A-Z][a-z]+) by ${1}_${2}, scanning from index i.
RECURSIVE replaceFirstCap(_, _)
replaceFirstCap(s, i) ==
  IF i > Len(s) THEN <<>>
  ELSE IF /\ i + 2 <= Len(s)
          /\ s[i] # "\n"
          /\ s[i + 1] \in UpperSet
          /\ LowerRun(s, i + 2) > 0
       THEN LET e == i + 1 + LowerRun(s, i + 2)
            IN  <<s[i], "_">> \o SubSeq(s, i + 1, e) \o replaceFirstCap(s, e + 1)
       ELSE <<s[i]>> \o replaceFirstCap(s, i + 1)

\* ReplaceAllString of ([a-z0-9])([A-Z]) by ${1}_${2}, scanning from index i.
RECURSIVE replaceAllCap(_, _)
replaceAllCap(s, i) ==
  IF i > Len(s) THEN <<>>
  ELSE IF /\ i + 1 <= Len(s)
          /\ (s[i] \in LowerSet \/ s[i] \in DigitSet)
          /\ s[i + 1] \in UpperSet
       THEN <<s[i], "_", s[i + 1]>> \o replaceAllCap(s, i + 2)
       ELSE <<s[i]>> \o replaceAllCap(s, i + 1)

toSnakeCase(str) == ToUpper(replaceAllCap(replaceFirstCap(str, 1), 1))

(***************************************************************************)
(* Scanner.                                                                *)
(***************************************************************************)
getLine(r) ==
  LET idx == IndexByte(r, "\n")
  IN  IF idx = -1 THEN r ELSE Slice(r, 0, idx + 1)

checkDef(line) ==
  IF line = <<>> \/ line[1] # "="
  THEN <<>>
  ELSE LET idx == IndexByte(From(line, 1), "=")
       IN  IF idx = -1 THEN <<>>
           ELSE LET name == Slice(line, 1, idx + 1)
                IN  IF Len(name) > 0 /\ isName(name) THEN name ELSE <<>>

\* Variant: the lines are counted from zero.
currentLineFromZero(s, r) == Count(Slice(s, 0, Len(s) - Len(r)), "\n")

currentLine(s, r) == 1 + Count(Slice(s, 0, Len(s) - Len(r)), "\n")

\* Variant: the marker is cut off the document instead of the cursor.
RECURSIVE readDefFromStart(_, _)
readDefFromStart(s, r) ==
  LET idx   == IndexByte(r, "\n")
      line  == IF idx = -1 THEN r ELSE Slice(r, 0, idx)
      line2 == TrimSpace(line)
  IN  IF line2 = <<>> \/ line2[1] = "#"
      THEN IF idx = -1
           THEN [name |-> <<>>, rest |-> <<>>, ok |-> TRUE, nr |-> 0,
                 line |-> <<>>]
           ELSE readDefFromStart(s, From(r, idx + 1))
      ELSE LET name == checkDef(line)
           IN  IF name = <<>>
               THEN [name |-> <<>>, rest |-> r, ok |-> FALSE,
                     nr |-> currentLine(s, r), line |-> line]
               ELSE [name |-> name, rest |-> From(s, Len(name) + 2),
                     ok |-> TRUE, nr |-> 0, line |-> <<>>]

\* readDef: skips blank and comment lines, then reads the marker name.
\* Result: name (<<>> at end of input), the new cursor, and for a malformed
\* line the line number and the raw line.
RECURSIVE readDef(_, _)
readDef(s, r) ==
  LET idx   == IndexByte(r, "\n")
      line  == IF idx = -1 THEN r ELSE Slice(r, 0, idx)
      line2 == TrimSpace(line)
  IN  IF line2 = <<>> \/ line2[1] = "#"
      THEN IF idx = -1
           THEN [name |-> <<>>, rest |-> <<>>, ok |-> TRUE, nr |-> 0,
                 line |-> <<>>]
           ELSE readDef(s, From(r, idx + 1))
      ELSE LET name == checkDef(line)
           IN  IF name = <<>>
               THEN [name |-> <<>>, rest |-> r, ok |-> FALSE,
                     nr |-> currentLine(s, r), line |-> line]
               ELSE [name |-> name, rest |-> From(r, Len(name) + 2),
                     ok |-> TRUE, nr |-> 0, line |-> <<>>]

(***************************************************************************)
(* Block reader.                                                           *)
(***************************************************************************)

\* Variant: a blank line ends the block as well.
blockEndsOnBlank(line) == checkDef(line) # <<>> \/ TrimSpace(line) = <<>>

\* Condition that ends the accumulation loop of readText.
blockEnds(line) == checkDef(line) # <<>> \/ line = <<>>

\* Variant: the whole line of an END marker is consumed.
RECURSIVE readLinesEndLine(_, _)
readLinesEndLine(r, size) ==
  LET line == getLine(r)
  IN  IF blockEnds(line)
      THEN [size |-> size,
            rest |-> IF checkDef(line) = <<"E","N","D">>
                     THEN From(r, Len(line)) ELSE r]
      ELSE readLinesEndLine(From(r, Len(line)), size + Len(line))

\* The accumulation loop of readText: number of bytes taken as text and the
\* cursor after the loop.
RECURSIVE readLines(_, _)
readLines(r, size) ==
  LET line == getLine(r)
  IN  IF blockEnds(line)
      THEN [size |-> size,
            rest |-> IF checkDef(line) = <<"E","N","D">>
                     THEN From(r, 5) ELSE r]
      ELSE readLines(From(r, Len(line)), size + Len(line))

\* Variant: only the leading whitespace of a single-line text is trimmed.
readTextTrimLeft(r) ==
  LET line == getLine(r)
      r1   == From(r, Len(line))
      t    == TrimSpace(line)
  IN  IF t # <<>>
      THEN [text |-> TrimLeft(line), rest |-> r1, multi |-> FALSE]
      ELSE LET acc == readLines(r1, 0)
           IN  [text |-> Slice(r1, 0, acc.size), rest |-> acc.rest,
                multi |-> TRUE]

readText(r) ==
  LET line == getLine(r)
      r1   == From(r, Len(line))
      t    == TrimSpace(line)
  IN  IF t # <<>>
      THEN [text |-> t, rest |-> r1, multi |-> FALSE]
      ELSE LET acc == readLines(r1, 0)
           IN  [text |-> Slice(r1, 0, acc.size), rest |-> acc.rest,
                multi |-> TRUE]

(***************************************************************************)
(* Template calls.                                                         *)
(***************************************************************************)
RxSpace == {" ", "\t", "\n", "\r", "\f"}

RECURSIVE NameRun(_, _)
NameRun(s, i) ==
  IF i <= Len(s) /\ (isLetter(s[i]) \/ isDecimal(s[i]))
  THEN 1 + NameRun(s, i + 1) ELSE 0

RECURSIVE SpaceRun(_, _)
SpaceRun(s, i) ==
  IF i <= Len(s) /\ s[i] \in RxSpace THEN 1 + SpaceRun(s, i + 1) ELSE 0

\* Least index >= i at which "]]" starts, 0 if there is none.
RECURSIVE FindClose(_, _)
FindClose(s, i) ==
  IF i + 1 > Len(s) THEN 0
  ELSE IF s[i] = "]" /\ s[i + 1] = "]" THEN i ELSE FindClose(s, i + 1)

\* Variant: the match always ends with the first closing "]]".
templRxAtShortest(s, p) ==
  IF ~HasPrefixAt(s, p, <<"[", "[">>) \/ NameRun(s, p + 2) = 0 THEN 0
  ELSE LET q == p + 2 + NameRun(s, p + 2)
           w == q + SpaceRun(s, q)
           c == IF w > q THEN FindClose(s, w) ELSE 0
       IN  IF c # 0 THEN c + 2
           ELSE IF HasPrefixAt(s, q, <<"]", "]">>) THEN q + 2 ELSE 0

\* templRx anchored at index p: index one past the match, 0 if no match.
templRxAt(s, p) ==
  IF ~HasPrefixAt(s, p, <<"[", "[">>) \/ NameRun(s, p + 2) = 0 THEN 0
  ELSE LET q == p + 2 + NameRun(s, p + 2)
           w == q + SpaceRun(s, q)
           c == IF w > q THEN FindClose(s, w) ELSE 0
       IN  IF c # 0
           THEN IF c + 2 <= Len(s) /\ s[c + 2] = "]" THEN c + 3 ELSE c + 2
           ELSE IF HasPrefixAt(s, q, <<"]", "]">>) THEN q + 2 ELSE 0

\* templRx.FindAllStringIndex: 0-based [start, end) pairs from index p on.
RECURSIVE templRxFindAll(_, _)
templRxFindAll(s, p) ==
  IF p > Len(s) THEN <<>>
  ELSE LET e == templRxAt(s, p)
       IN  IF e = 0 THEN templRxFindAll(s, p + 1)
           ELSE <<<<p - 1, e - 1>>>> \o templRxFindAll(s, e)

\* strings.IndexAny(pair, " \t\n")
IndexAny(s, cs) ==
  IF \E i \in 1..Len(s) : s[i] \in cs
  THEN (CHOOSE i \in 1..Len(s) : s[i] \in cs /\ \A j \in 1..(i-1) : s[j] \notin cs) - 1
  ELSE -1

\* strings.ReplaceAll
RECURSIVE ReplaceAll(_, _, _)
ReplaceAll(s, old, new) ==
  IF old = <<>>
  THEN IF s = <<>> THEN new ELSE new \o <<s[1]>> \o ReplaceAll(Tail(s), old, new)
  ELSE IF s = <<>> THEN <<>>
  ELSE IF HasPrefixAt(s, 1, old)
       THEN new \o ReplaceAll(From(s, Len(old)), old, new)
       ELSE <<s[1]>> \o ReplaceAll(Tail(s), old, new)

\* yaml.Unmarshal restricted to plain scalars and flow sequences of plain
\* scalars: the decoded value is kept as the text that {{.}} prints for it,
\* <<>> standing for nil.
RECURSIVE Depth(_, _)
Depth(s, d) ==
  IF s = <<>> THEN d
  ELSE IF d < 0 THEN d
  ELSE Depth(Tail(s), d + (IF s[1] = "[" THEN 1 ELSE IF s[1] = "]" THEN -1 ELSE 0))

\* The printed form of a decoded flow sequence: elements separated by blanks.
FlowText(t) ==
  ReplaceAll(ReplaceAll(t, <<",", " ">>, <<",">>), <<",">>, <<" ">>)

yamlUnmarshal(y) ==
  LET t == TrimSpace(y)
  IN  IF t = <<>> THEN [ok |-> TRUE, data |-> <<>>]
      ELSE IF t[1] = "["
      THEN IF /\ Depth(t, 0) = 0
              /\ \A i \in 1..(Len(t) - 1) : Depth(SubSeq(t, 1, i), 0) >= 1
           THEN [ok |-> TRUE, data |-> FlowText(t)]
           ELSE [ok |-> FALSE, data |-> <<>>]
      ELSE IF t[1] = "]" THEN [ok |-> FALSE, data |-> <<>>]
      ELSE [ok |-> TRUE, data |-> t]

\* Template.Execute for bodies whose only action is {{.}}.
Execute(body, data) ==
  ReplaceAll(body, <<"{", "{", ".", "}", "}">>,
             IF data = <<>> THEN <<"<","n","o"," ","v","a","l","u","e",">">>
             ELSE data)

\* Variant: a call to an unknown template is left in the text as it is.
RECURSIVE templLoopKeepUnknown(_, _, _, _, _, _)
templLoopKeepUnknown(tm, text, il, k, prevIdx, result) ==
  IF k > Len(il)
  THEN [ok |-> TRUE, text |-> result \o From(text, prevIdx),
        kind |-> "", arg |-> <<>>]
  ELSE LET p    == il[k]
           pair == Slice(text, p[1] + 2, p[2] - 2)
           i    == IndexAny(pair, {" ", "\t", "\n"})
           name == IF i # -1 THEN Slice(pair, 0, i) ELSE pair
           y    == IF i # -1 THEN yamlUnmarshal(From(pair, i + 1))
                   ELSE [ok |-> TRUE, data |-> <<>>]
       IN  IF ~y.ok
           THEN [ok |-> FALSE, text |-> <<>>, kind |-> "invalid YAML data",
                 arg |-> name]
           ELSE IF name \notin DOMAIN tm
           THEN templLoopKeepUnknown(tm, text, il, k + 1, p[2],
                                     result \o Slice(text, prevIdx, p[2]))
           ELSE templLoopKeepUnknown(tm, text, il, k + 1, p[2],
                                     result \o Slice(text, prevIdx, p[1])
                                            \o Execute(tm[name], y.data))

\* The loop of doTemplSubst over the matches il, from match number k on.
RECURSIVE templLoop(_, _, _, _, _, _)
templLoop(tm, text, il, k, prevIdx, result) ==
  IF k > Len(il)
  THEN [ok |-> TRUE, text |-> result \o From(text, prevIdx),
        kind |-> "", arg |-> <<>>]
  ELSE LET p    == il[k]
           pair == Slice(text, p[1] + 2, p[2] - 2)
           i    == IndexAny(pair, {" ", "\t", "\n"})
           name == IF i # -1 THEN Slice(pair, 0, i) ELSE pair
           y    == IF i # -1 THEN yamlUnmarshal(From(pair, i + 1))
                   ELSE [ok |-> TRUE, data |-> <<>>]
       IN  IF ~y.ok
           THEN [ok |-> FALSE, text |-> <<>>, kind |-> "invalid YAML data",
                 arg |-> name]
           ELSE IF name \notin DOMAIN tm
           THEN [ok |-> FALSE, text |-> <<>>,
                 kind |-> "calling unknown template", arg |-> name]
           ELSE templLoop(tm, text, il, k + 1, p[2],
                          result \o Slice(text, prevIdx, p[1])
                                 \o Execute(tm[name], y.data))

\* Variant: the expanded text is scanned for calls once more.
doTemplSubstTwice(tm, text) ==
  LET once == templLoop(tm, text, templRxFindAll(text, 1), 1, 0, <<>>)
  IN  IF ~once.ok THEN once
      ELSE templLoop(tm, once.text, templRxFindAll(once.text, 1), 1, 0, <<>>)

doTemplSubst(tm, text) ==
  templLoop(tm, text, templRxFindAll(text, 1), 1, 0, <<>>)

(***************************************************************************)
(* SUBST lines.                                                            *)
(***************************************************************************)
\* strings.Split(s, sep) for a one-character separator.
RECURSIVE Split(_, _)
Split(s, sep) ==
  LET i == IndexByte(s, sep)
  IN  IF i = -1 THEN <<s>>
      ELSE <<Slice(s, 0, i)>> \o Split(From(s, i + 1), sep)

SUBST == <<"S","U","B","S","T">>

\* Variant: the marker of a template definition is named TEMPLATE.
TEMPLATE == <<"T","E","M","P","L","A","T","E">>

TEMPL == <<"T","E","M","P","L">>

\* Variant: text after the final delimiter is accepted.
RECURSIVE applySubstLax(_, _, _)
applySubstLax(text, r, rules) ==
  LET line == getLine(r)
  IN  IF checkDef(line) # SUBST
      THEN [ok |-> TRUE, text |-> text, rest |-> r, rules |-> rules,
            kind |-> "", arg |-> <<>>]
      ELSE LET r1      == From(r, Len(line))
               payload == TrimSpace(From(line, 7))
           IN  IF Len(payload) = 0
               THEN [ok |-> FALSE, text |-> <<>>, rest |-> r1, rules |-> rules,
                     kind |-> "invalid empty substitution", arg |-> <<>>]
               ELSE LET parts == Split(From(payload, 1), payload[1])
                    IN  IF Len(parts) # 3
                        THEN [ok |-> FALSE, text |-> <<>>, rest |-> r1,
                              rules |-> rules,
                              kind |-> "invalid substitution", arg |-> payload]
                        ELSE applySubstLax(ReplaceAll(text, parts[1], parts[2]),
                                           r1,
                                           Append(rules, [left |-> Len(r),
                                                          from |-> parts[1],
                                                          to |-> parts[2]]))

\* applySubst: the rules applied are returned with the number of bytes that
\* were still unread when their line was met.
RECURSIVE applySubst(_, _, _)
applySubst(text, r, rules) ==
  LET line == getLine(r)
  IN  IF checkDef(line) # SUBST
      THEN [ok |-> TRUE, text |-> text, rest |-> r, rules |-> rules,
            kind |-> "", arg |-> <<>>]
      ELSE LET r1      == From(r, Len(line))
               payload == TrimSpace(From(line, 7))
           IN  IF Len(payload) = 0
               THEN [ok |-> FALSE, text |-> <<>>, rest |-> r1, rules |-> rules,
                     kind |-> "invalid empty substitution", arg |-> <<>>]
               ELSE LET parts == Split(From(payload, 1), payload[1])
                    IN  IF Len(parts) # 3 \/ parts[3] # <<>>
                        THEN [ok |-> FALSE, text |-> <<>>, rest |-> r1,
                              rules |-> rules,
                              kind |-> "invalid substitution", arg |-> payload]
                        ELSE applySubst(ReplaceAll(text, parts[1], parts[2]),
                                        r1,
                                        Append(rules, [left |-> Len(r),
                                                       from |-> parts[1],
                                                       to |-> parts[2]]))

\* Variant: the text is returned without the whitespace around it.
substResultTrimmed(raw, sub) ==
  [ok |-> sub.ok, text |-> TrimSpace(sub.text), rest |-> sub.rest, raw |-> raw,
   rules |-> sub.rules, kind |-> sub.kind, arg |-> sub.arg]

\* The result of readExpandedText once applySubst has run.
substResult(raw, sub) ==
  [ok |-> sub.ok, text |-> sub.text, rest |-> sub.rest, raw |-> raw,
   rules |-> sub.rules, kind |-> sub.kind, arg |-> sub.arg]

\* The part of readExpandedText after doTemplSubst.
expandResult(raw, line) ==
  IF ~line.ok
  THEN [ok |-> FALSE, text |-> <<>>, rest |-> raw.rest, raw |-> raw,
        rules |-> <<>>, kind |-> line.kind, arg |-> line.arg]
  ELSE substResult(raw, applySubst(line.text, raw.rest, <<>>))

\* Variant: the SUBST lines are applied before the template calls.
expandRawSubstFirst(tm, raw) ==
  LET sub == applySubst(raw.text, raw.rest, <<>>)
  IN  IF ~sub.ok THEN substResult(raw, sub)
      ELSE IF ~doTemplSubst(tm, sub.text).ok
      THEN [ok |-> FALSE, text |-> <<>>, rest |-> sub.rest, raw |-> raw,
            rules |-> sub.rules, kind |-> doTemplSubst(tm, sub.text).kind,
            arg |-> doTemplSubst(tm, sub.text).arg]
      ELSE [ok |-> TRUE, text |-> doTemplSubst(tm, sub.text).text,
            rest |-> sub.rest, raw |-> raw, rules |-> sub.rules,
            kind |-> "", arg |-> <<>>]

\* The part of readExpandedText after readText.
expandRaw(tm, raw) == expandResult(raw, doTemplSubst(tm, raw.text))

\* readExpandedText: block text, template calls, then SUBST lines.
readExpandedText(tm, r) == expandRaw(tm, readText(r))

(***************************************************************************)
(* Record shapes and field binding.                                        *)
(***************************************************************************)
\* struct{ T string; In string; N int; B bool }
Descr == [struct |-> TRUE,
          fields |-> << [Name |-> <<"T">>, Kind |-> "string"],
                        [Name |-> <<"I","n">>, Kind |-> "string"],
                        [Name |-> <<"N">>, Kind |-> "int"],
                        [Name |-> <<"B">>, Kind |-> "bool"] >>]

\* struct{ T string; In []string }
WithSlice == [struct |-> TRUE,
              fields |-> << [Name |-> <<"T">>, Kind |-> "string"],
                            [Name |-> <<"I","n">>, Kind |-> "slice"] >>]

\* struct{ T string; B bool; C bool }
BoolDescr == [struct |-> TRUE,
              fields |-> << [Name |-> <<"T">>, Kind |-> "string"],
                            [Name |-> <<"B">>, Kind |-> "bool"],
                            [Name |-> <<"C">>, Kind |-> "bool"] >>]

\* struct{ T string; End string }
EndDescr == [struct |-> TRUE,
             fields |-> << [Name |-> <<"T">>, Kind |-> "string"],
                           [Name |-> <<"E","n","d">>, Kind |-> "string"] >>]

\* struct{}
EmptyStruct == [struct |-> TRUE, fields |-> <<>>]

\* a slice of strings instead of a slice of structs
NoStruct == [struct |-> FALSE, fields |-> <<>>]

IsExported(n) == n # <<>> /\ n[1] \in UpperSet

Zero(kind) ==
  CASE kind = "int" -> 0
    [] kind = "bool" -> FALSE
    [] OTHER -> <<>>

ZeroElement(sh) ==
  IF sh.struct THEN [i \in 1..Len(sh.fields) |-> Zero(sh.fields[i].Kind)]
  ELSE <<>>

\* addElement: the slice grown by one zero element; the new element is the
\* last one.
addElement(v, sh) == Append(v, ZeroElement(sh))

RECURSIVE Digits(_, _)
Digits(s, acc) ==
  IF s = <<>> THEN acc
  ELSE Digits(Tail(s), 10 * acc + ((CHOOSE i \in 1..10 : DigitSeq[i] = s[1]) - 1))

\* The decimal digits of the largest magnitude of an int64, 2^63 - 1 for a
\* numeral without "-" and 2^63 for a numeral with it.
MaxMagnitude(neg) ==
  << "9","2","2","3","3","7","2","0","3","6","8","5","4","7","7","5","8","0",
     IF neg THEN "8" ELSE "7" >>

RECURSIVE StripZeros(_)
StripZeros(s) ==
  IF s # <<>> /\ s[1] = "0" THEN StripZeros(Tail(s)) ELSE s

DigitVal(ch) == (CHOOSE i \in 1..10 : DigitSeq[i] = ch) - 1

\* a <= b for two digit strings of the same length.
RECURSIVE DigitsLeq(_, _)
DigitsLeq(a, b) ==
  IF a = <<>> THEN TRUE
  ELSE IF a[1] # b[1] THEN DigitVal(a[1]) < DigitVal(b[1])
  ELSE DigitsLeq(Tail(a), Tail(b))

\* The range check of ParseInt for bitSize 64, on the digits of the numeral.
InRange64(neg, body) ==
  LET d == StripZeros(body)
      m == MaxMagnitude(neg)
  IN  \/ Len(d) < Len(m)
      \/ Len(d) = Len(m) /\ DigitsLeq(d, m)

\* Variant: a numeral with a sign is rejected.
ParseIntUnsigned(s) ==
  IF s = <<>> \/ \E i \in 1..Len(s) : ~isDecimal(s[i])
  THEN [ok |-> FALSE, val |-> 0]
  ELSE IF ~InRange64(FALSE, s)
  THEN [ok |-> FALSE, val |-> 0]
  ELSE [ok |-> TRUE, val |-> Digits(s, 0)]

\* strconv.ParseInt(s, 10, 64): a syntax error for anything but an optional
\* sign and decimal digits, a range error for a numeral outside int64.
ParseInt(s) ==
  LET neg  == s # <<>> /\ s[1] = "-"
      body == IF s # <<>> /\ s[1] \in {"+", "-"} THEN Tail(s) ELSE s
  IN  IF body = <<>> \/ \E i \in 1..Len(body) : ~isDecimal(body[i])
      THEN [ok |-> FALSE, val |-> 0]
      ELSE IF ~InRange64(neg, body)
      THEN [ok |-> FALSE, val |-> 0]
      ELSE [ok |-> TRUE,
            val |-> IF neg THEN 0 - Digits(body, 0) ELSE Digits(body, 0)]

\* Variant: marker names are compared without regard to case.
fieldOfFold(fields, name) ==
  IF \E i \in 1..Len(fields) : toSnakeCase(fields[i].Name) = ToUpper(name)
  THEN CHOOSE i \in 1..Len(fields) :
         /\ toSnakeCase(fields[i].Name) = ToUpper(name)
         /\ \A j \in 1..(i-1) : toSnakeCase(fields[j].Name) # ToUpper(name)
  ELSE 0

\* Index of the first field whose marker name is name, 0 if there is none.
fieldOf(fields, name) ==
  IF \E i \in 1..Len(fields) : toSnakeCase(fields[i].Name) = name
  THEN CHOOSE i \in 1..Len(fields) :
         /\ toSnakeCase(fields[i].Name) = name
         /\ \A j \in 1..(i-1) : toSnakeCase(fields[j].Name) # name
  ELSE 0

\* Variant: a field of any other kind is stored like a text field.
setValAnyKind(e, fields, name, text) ==
  LET i == fieldOf(fields, name)
  IN  IF i = 0
      THEN [ok |-> FALSE, el |-> e, kind |-> "unexpected", arg |-> name]
      ELSE IF ~IsExported(fields[i].Name)
      THEN [ok |-> FALSE, el |-> e, kind |-> "must be exported",
            arg |-> fields[i].Name]
      ELSE CASE fields[i].Kind = "int" ->
                  LET p == ParseInt(TrimSpace(text))
                  IN  IF p.ok
                      THEN [ok |-> TRUE, el |-> [e EXCEPT ![i] = p.val],
                            kind |-> "", arg |-> <<>>]
                      ELSE [ok |-> FALSE, el |-> e,
                            kind |-> "invalid value for struct field",
                            arg |-> fields[i].Name]
             [] fields[i].Kind = "bool" ->
                  [ok |-> TRUE, el |-> [e EXCEPT ![i] = TRUE], kind |-> "",
                   arg |-> <<>>]
             [] OTHER ->
                  [ok |-> TRUE, el |-> [e EXCEPT ![i] = text], kind |-> "",
                   arg |-> <<>>]

\* Variant: a boolean field is set from its text, "no" meaning false.
setValBoolFromText(e, fields, name, text) ==
  LET i == fieldOf(fields, name)
  IN  IF i = 0
      THEN [ok |-> FALSE, el |-> e, kind |-> "unexpected", arg |-> name]
      ELSE IF ~IsExported(fields[i].Name)
      THEN [ok |-> FALSE, el |-> e, kind |-> "must be exported",
            arg |-> fields[i].Name]
      ELSE CASE fields[i].Kind = "string" ->
                  [ok |-> TRUE, el |-> [e EXCEPT ![i] = text], kind |-> "",
                   arg |-> <<>>]
             [] fields[i].Kind = "int" ->
                  LET p == ParseInt(TrimSpace(text))
                  IN  IF p.ok
                      THEN [ok |-> TRUE, el |-> [e EXCEPT ![i] = p.val],
                            kind |-> "", arg |-> <<>>]
                      ELSE [ok |-> FALSE, el |-> e,
                            kind |-> "invalid value for struct field",
                            arg |-> fields[i].Name]
             [] fields[i].Kind = "bool" ->
                  [ok |-> TRUE,
                   el |-> [e EXCEPT ![i] = (TrimSpace(text) # <<"n", "o">>)],
                   kind |-> "", arg |-> <<>>]
             [] OTHER ->
                  [ok |-> FALSE, el |-> e,
                   kind |-> "unexpected type of struct field",
                   arg |-> fields[i].Name]

\* setVal on element e of a struct with the given fields.
setVal(e, fields, name, text) ==
  LET i == fieldOf(fields, name)
  IN  IF i = 0
      THEN [ok |-> FALSE, el |-> e, kind |-> "unexpected", arg |-> name]
      ELSE IF ~IsExported(fields[i].Name)
      THEN [ok |-> FALSE, el |-> e, kind |-> "must be exported",
            arg |-> fields[i].Name]
      ELSE CASE fields[i].Kind = "string" ->
                  [ok |-> TRUE, el |-> [e EXCEPT ![i] = text], kind |-> "",
                   arg |-> <<>>]
             [] fields[i].Kind = "int" ->
                  LET p == ParseInt(TrimSpace(text))
                  IN  IF p.ok
                      THEN [ok |-> TRUE, el |-> [e EXCEPT ![i] = p.val],
                            kind |-> "", arg |-> <<>>]
                      ELSE [ok |-> FALSE, el |-> e,
                            kind |-> "invalid value for struct field",
                            arg |-> fields[i].Name]
             [] fields[i].Kind = "bool" ->
                  [ok |-> TRUE, el |-> [e EXCEPT ![i] = TRUE], kind |-> "",
                   arg |-> <<>>]
             [] OTHER ->
                  [ok |-> FALSE, el |-> e,
                   kind |-> "unexpected type of struct field",
                   arg |-> fields[i].Name]

(***************************************************************************)
(* Template definitions.                                                   *)
(***************************************************************************)
readTemplName(r) ==
  LET idx  == IndexByte(r, "\n")
      line == IF idx = -1 THEN r ELSE Slice(r, 0, idx)
      r1   == IF idx = -1 THEN <<>> ELSE From(r, idx)
      name == TrimSpace(line)
  IN  IF Len(name) = 0
      THEN [ok |-> FALSE, name |-> name, rest |-> r1,
            kind |-> "missing name after =TEMPL="]
      ELSE IF ~isName(name)
      THEN [ok |-> FALSE, name |-> name, rest |-> r1,
            kind |-> "invalid name after =TEMPL="]
      ELSE [ok |-> TRUE, name |-> name, rest |-> r1, kind |-> ""]

\* Variant: a name that is already registered keeps its first body.
templDefBodyKeepFirst(tm, n, x) ==
  IF ~x.ok
  THEN [ok |-> FALSE, tm |-> tm, rest |-> x.rest, kind |-> x.kind,
        arg |-> x.arg, blk |-> <<[at |-> Len(n.rest), x |-> x]>>,
        rules |-> x.rules]
  ELSE IF Len(TrimSuffixNL(x.text)) = 0
  THEN [ok |-> FALSE, tm |-> tm, rest |-> x.rest,
        kind |-> "missing text after =TEMPL=", arg |-> n.name,
        blk |-> <<[at |-> Len(n.rest), x |-> x]>>, rules |-> x.rules]
  ELSE [ok |-> TRUE,
        tm |-> [k \in DOMAIN tm \cup {n.name} |->
                  IF k \in DOMAIN tm THEN tm[k] ELSE TrimSuffixNL(x.text)],
        rest |-> x.rest, kind |-> "", arg |-> <<>>,
        blk |-> <<[at |-> Len(n.rest), x |-> x]>>, rules |-> x.rules]

\* Variant: the body is stored as it was read, its calls unexpanded.
templDefBodyRaw(tm, n, x) ==
  IF ~x.ok
  THEN [ok |-> FALSE, tm |-> tm, rest |-> x.rest, kind |-> x.kind,
        arg |-> x.arg, blk |-> <<[at |-> Len(n.rest), x |-> x]>>,
        rules |-> x.rules]
  ELSE IF Len(TrimSuffixNL(x.text)) = 0
  THEN [ok |-> FALSE, tm |-> tm, rest |-> x.rest,
        kind |-> "missing text after =TEMPL=", arg |-> n.name,
        blk |-> <<[at |-> Len(n.rest), x |-> x]>>, rules |-> x.rules]
  ELSE [ok |-> TRUE,
        tm |-> [k \in DOMAIN tm \cup {n.name} |->
                  IF k = n.name THEN TrimSuffixNL(x.raw.text) ELSE tm[k]],
        rest |-> x.rest, kind |-> "", arg |-> <<>>,
        blk |-> <<[at |-> Len(n.rest), x |-> x]>>, rules |-> x.rules]

\* Variant: a template may have an empty body.
templDefBodyAllowEmpty(tm, n, x) ==
  IF ~x.ok
  THEN [ok |-> FALSE, tm |-> tm, rest |-> x.rest, kind |-> x.kind,
        arg |-> x.arg, blk |-> <<[at |-> Len(n.rest), x |-> x]>>,
        rules |-> x.rules]
  ELSE [ok |-> TRUE,
        tm |-> [k \in DOMAIN tm \cup {n.name} |->
                  IF k = n.name THEN TrimSuffixNL(x.text) ELSE tm[k]],
        rest |-> x.rest, kind |-> "", arg |-> <<>>,
        blk |-> <<[at |-> Len(n.rest), x |-> x]>>, rules |-> x.rules]

\* The part of templDef after readExpandedText.
templDefBody(tm, n, x) ==
  IF ~x.ok
  THEN [ok |-> FALSE, tm |-> tm, rest |-> x.rest, kind |-> x.kind,
        arg |-> x.arg, blk |-> <<[at |-> Len(n.rest), x |-> x]>>,
        rules |-> x.rules]
  ELSE IF Len(TrimSuffixNL(x.text)) = 0
  THEN [ok |-> FALSE, tm |-> tm, rest |-> x.rest,
        kind |-> "missing text after =TEMPL=", arg |-> n.name,
        blk |-> <<[at |-> Len(n.rest), x |-> x]>>, rules |-> x.rules]
  ELSE [ok |-> TRUE,
        tm |-> [k \in DOMAIN tm \cup {n.name} |->
                  IF k = n.name THEN TrimSuffixNL(x.text) ELSE tm[k]],
        rest |-> x.rest, kind |-> "", arg |-> <<>>,
        blk |-> <<[at |-> Len(n.rest), x |-> x]>>, rules |-> x.rules]

\* The part of templDef after readTemplName.
templDefName(tm, n) ==
  IF ~n.ok
  THEN [ok |-> FALSE, tm |-> tm, rest |-> n.rest, kind |-> n.kind,
        arg |-> n.name, blk |-> <<>>, rules |-> <<>>]
  ELSE templDefBody(tm, n, readExpandedText(tm, n.rest))

\* templDef: the registry and the cursor after a TEMPL marker.
templDef(tm, r) == templDefName(tm, readTemplName(r))

(***************************************************************************)
(* Documents: every concatenation of at most MaxChunks chunks.             *)
(***************************************************************************)
Chunks ==
  << <<"=","T","=","a","\n">>,
     <<"=","T","=","\n">>,
     <<"=","I","N","=","a","\n">>,
     <<"=","I","N","=","\n">>,
     <<"a","\n">>,
     <<"\n">>,
     <<"#","\n">>,
     <<"=","E","N","D","=","\n">>,
     <<"=","S","U","B","S","T","=","/","a","/","b","/","\n">>,
     <<"=","i","n","=","[","[","z","]","]","\n">>,
     <<"=","I","N","=","[","[","z","]","]","\n">>,
     <<"=","T","E","M","P","L","=","z","\n","a","\n">> >>

RECURSIVE Concat(_, _)
Concat(ix, k) ==
  IF k > Len(ix) THEN <<>> ELSE Chunks[ix[k]] \o Concat(ix, k + 1)

DocsUpTo(m) ==
  {Concat(ix, 1) : ix \in UNION {[1..n -> 1..Len(Chunks)] : n \in 0..m}}

Docs == DocsUpTo(MaxChunks)

(***************************************************************************)
(* The parse as a state machine.                                           *)
(***************************************************************************)
NoErr == [kind |-> "", arg |-> <<>>, ctx |-> "", tval |-> <<>>, nr |-> 0,
          line |-> <<>>]

\* An error without context.
plainErr(kind, arg) == [NoErr EXCEPT !.kind = kind, !.arg = arg]

\* withContext: "in test with =TITLE=tVal" or "in file NAME".
withContext(tv, kind, arg) ==
  IF tv # <<>>
  THEN [NoErr EXCEPT !.kind = kind, !.arg = arg, !.ctx = "test", !.tval = tv]
  ELSE [NoErr EXCEPT !.kind = kind, !.arg = arg, !.ctx = "file"]

title == toSnakeCase(shape.fields[1].Name)

\* The state of a second invocation of ParseFile for the record shape sh and
\* the document doc, as ParseFile constructs it.
StateOf(sh, doc) ==
  [shape |-> sh, src |-> doc, rest |-> doc, templates |-> [k \in {} |-> <<>>],
   slice |-> <<>>, el |-> 0, seen |-> {}, tVal |-> <<>>, first |-> TRUE,
   pc |-> "start", err |-> NoErr]

\* No second invocation runs.
NoPeer == [StateOf(NoStruct, <<>>) EXCEPT !.pc = "none"]

\* Offset in src of a cursor r.
Off(r) == Len(src) - Len(r)


\* Variant: a repeated title marker keeps writing into the open record.
needNewElementNever(seenSet, name) == FALSE

\* Decisions of the main loop.
needNewElement(seenSet, name) == name \in seenSet


\* Variant: a field marker is accepted before the first title marker.
missingTitleIgnored(name, isFirst) == FALSE

missingTitle(name, isFirst) == name # title /\ isFirst


\* Variant: a repeated marker overwrites the field.
isDuplicateIgnored(seenSet, name) == FALSE

isDuplicate(seenSet, name) == name \in seenSet


\* Variant: the end of the input is accepted without a title marker.
eofIsErrorNever(isFirst) == FALSE

eofIsError(isFirst) == isFirst


\* Variant: a leading END marker is rejected like a leading SUBST marker.
isSubstMarkerOrEnd(name) == name = SUBST \/ name = <<"E","N","D">>

\* Variant: a leading SUBST marker is handled as a field marker.
isSubstMarkerNever(name) == FALSE

isSubstMarker(name) == name = SUBST

\* The shape of the tests is explored with every document, the shape with
\* a slice-typed field with the documents one chunk shorter, and the shapes
\* that parse rejects at once with the documents of at most one chunk.
Init ==
  /\ \/ shape = Descr /\ src \in Docs
     \/ shape = WithSlice /\ src \in DocsUpTo(MaxChunks - 1)
     \/ shape \in {EmptyStruct, NoStruct} /\ src \in DocsUpTo(1)
  /\ rest = src
  /\ templates = [k \in {} |-> <<>>]
  /\ slice = <<>>
  /\ el = 0
  /\ seen = {}
  /\ tVal = <<>>
  /\ first = TRUE
  /\ pc = "start"
  /\ err = NoErr
  /\ markers = <<>>
  /\ blocks = <<>>
  /\ substs = <<>>
  /\ peer = NoPeer

\* parse, up to the loop: the first element and the checks of the shape.
Start ==
  /\ pc = "start"
  /\ slice' = addElement(slice, shape)
  /\ el' = Len(slice) + 1
  /\ IF ~shape.struct
     THEN pc' = "failed" /\ err' = plainErr("expecting slice of struct", <<>>)
     ELSE IF Len(shape.fields) = 0
     THEN /\ pc' = "failed"
          /\ err' = plainErr("expecting struct with at least one field", <<>>)
     ELSE pc' = "loop" /\ err' = err
  /\ UNCHANGED <<peer, shape, src, rest, templates, seen, tVal, first, markers,
                 blocks, substs>>

\* readDef meets a malformed line.
SyntaxError ==
  /\ pc = "loop"
  /\ LET rd == readDef(src, rest)
     IN  /\ ~rd.ok
         /\ rest' = rd.rest
         /\ err' = [NoErr EXCEPT !.kind = "expecting token", !.nr = rd.nr,
                                 !.line = rd.line]
  /\ pc' = "failed"
  /\ UNCHANGED <<peer, shape, src, templates, slice, el, seen, tVal, first,
                 markers, blocks, substs>>

\* readDef reaches the end of the input.
EndOfInput ==
  /\ pc = "loop"
  /\ LET rd == readDef(src, rest)
     IN  /\ rd.ok
         /\ rd.name = <<>>
         /\ rest' = rd.rest
  /\ IF eofIsError(first)
     THEN pc' = "failed" /\ err' = plainErr("missing title in first test", title)
     ELSE pc' = "done" /\ err' = err
  /\ UNCHANGED <<peer, shape, src, templates, slice, el, seen, tVal, first,
                 markers, blocks, substs>>

\* Ghost record of a marker read by the main loop.
Marker(name, at, xok, text, bound, rec) ==
  [name |-> name, at |-> at, open |-> ~first, xok |-> xok, text |-> text,
   bound |-> bound, rec |-> rec]

\* Ghost record of a block read by readText.
Block(from, x) ==
  [from |-> from, multi |-> x.raw.multi, text |-> x.raw.text,
   after |-> Off(x.raw.rest)]

\* Ghost records of the SUBST rules applied to block number b.
Rules(rules, b) ==
  [i \in 1..Len(rules) |->
     [at |-> Len(src) - rules[i].left, from |-> rules[i].from,
      to |-> rules[i].to, blk |-> b]]

\* The state after templDef returned td for the marker read by rd.
TemplDefDone(rd, td) ==
  /\ rest' = td.rest
  /\ templates' = td.tm
  /\ IF td.ok THEN pc' = "loop" /\ err' = err
     ELSE pc' = "failed" /\ err' = withContext(tVal, td.kind, td.arg)
  /\ blocks' = IF td.blk = <<>> THEN blocks
               ELSE Append(blocks, Block(Len(src) - td.blk[1].at, td.blk[1].x))
  /\ substs' = substs \o Rules(td.rules, Len(blocks) + 1)
  /\ markers' = Append(markers,
                       Marker(rd.name, Off(rd.rest) - 7, td.ok, <<>>, FALSE,
                              Len(slice)))

TemplDefAt(rd) ==
  /\ rd.ok
  /\ rd.name = TEMPL
  /\ ~isSubstMarker(rd.name)
  /\ TemplDefDone(rd, templDef(templates, rd.rest))

\* A TEMPL marker: templDef.
TemplDef ==
  /\ pc = "loop"
  /\ TemplDefAt(readDef(src, rest))
  /\ UNCHANGED <<peer, shape, src, slice, el, seen, tVal, first>>

\* A SUBST marker read as the leading marker of a block.
SubstMarker ==
  /\ pc = "loop"
  /\ LET rd == readDef(src, rest)
     IN  /\ rd.ok
         /\ rd.name # TEMPL
         /\ isSubstMarker(rd.name)
         /\ rest' = rd.rest
         /\ markers' = Append(markers,
                              Marker(rd.name, Off(rd.rest) - 7, TRUE, <<>>,
                                     FALSE, Len(slice)))
  /\ pc' = "failed"
  /\ err' = withContext(tVal, "=SUBST= is only valid at bottom of text block",
                        <<>>)
  /\ UNCHANGED <<peer, shape, src, templates, slice, el, seen, tVal, first, blocks,
                 substs>>

\* Lines 123 to 141 of parse: the marker name with its expanded text.
FieldBind(name, at, text) ==
  LET isT  == name = title
      grow == isT /\ needNewElement(seen, name)
      sl1  == IF grow THEN addElement(slice, shape) ELSE slice
      el1  == IF grow THEN Len(slice) + 1 ELSE el
      tv1  == IF isT THEN text ELSE tVal
      se1  == IF isT THEN {} ELSE seen
      sv   == setVal(sl1[el1], shape.fields, name, text)
  IN  /\ el' = el1
      /\ tVal' = tv1
      /\ first' = IF isT THEN FALSE ELSE first
      /\ IF missingTitle(name, first)
         THEN /\ pc' = "failed"
              /\ err' = withContext(tv1, "must define title before", name)
              /\ slice' = sl1
              /\ seen' = se1
              /\ markers' = Append(markers,
                                   Marker(name, at, TRUE, text, FALSE, el1))
         ELSE IF isDuplicate(se1, name)
         THEN /\ pc' = "failed"
              /\ err' = [NoErr EXCEPT !.kind = "found multiple",
                                      !.arg = name, !.ctx = "test",
                                      !.tval = tv1]
              /\ slice' = sl1
              /\ seen' = se1
              /\ markers' = Append(markers,
                                   Marker(name, at, TRUE, text, FALSE, el1))
         ELSE IF ~sv.ok
         THEN /\ pc' = "failed"
              /\ err' = withContext(tv1, sv.kind, sv.arg)
              /\ slice' = sl1
              /\ seen' = se1
              /\ markers' = Append(markers,
                                   Marker(name, at, TRUE, text, FALSE, el1))
         ELSE /\ pc' = "loop"
              /\ err' = err
              /\ slice' = [sl1 EXCEPT ![el1] = sv.el]
              /\ seen' = se1 \cup {name}
              /\ markers' = Append(markers,
                                   Marker(name, at, TRUE, text, TRUE, el1))

\* Lines 119 to 122 of parse: the block x read for the marker name.
FieldBlock(name, at, from, x) ==
  /\ rest' = x.rest
  /\ blocks' = Append(blocks, Block(from, x))
  /\ substs' = substs \o Rules(x.rules, Len(blocks) + 1)
  /\ IF ~x.ok
     THEN /\ pc' = "failed"
          /\ err' = withContext(tVal, x.kind, x.arg)
          /\ UNCHANGED <<slice, el, seen, tVal, first>>
          /\ markers' = Append(markers,
                               Marker(name, at, FALSE, <<>>, FALSE, Len(slice)))
     ELSE FieldBind(name, at, x.text)

FieldAt(rd) ==
  /\ rd.ok
  /\ rd.name # <<>>
  /\ rd.name # TEMPL
  /\ ~isSubstMarker(rd.name)
  /\ FieldBlock(rd.name, Off(rd.rest) - Len(rd.name) - 2, Off(rd.rest),
                readExpandedText(templates, rd.rest))

\* Any other marker: its block is read and expanded, then bound to a field.
Field ==
  /\ pc = "loop"
  /\ FieldAt(readDef(src, rest))
  /\ UNCHANGED <<peer, shape, src, templates>>

Next == Start \/ SyntaxError \/ EndOfInput \/ TemplDef \/ SubstMarker \/ Field

Spec == Init /\ [][Next]_vars

(***************************************************************************)
(* The same parse over other families of documents.                        *)
(***************************************************************************)
RECURSIVE ConcatOf(_, _, _)
ConcatOf(cs, ix, k) ==
  IF k > Len(ix) THEN <<>> ELSE cs[ix[k]] \o ConcatOf(cs, ix, k + 1)

\* Every concatenation of at most m chunks of the vocabulary cs.
DocsOf(cs, m) ==
  {ConcatOf(cs, ix, 1) : ix \in UNION {[1..n -> 1..Len(cs)] : n \in 0..m}}

\* The state after construction for a record shape sh and a document of
\* docs, beside another invocation of peers.
InitPair(sh, docs, peers) ==
  /\ shape = sh
  /\ src \in docs
  /\ rest = src
  /\ templates = [k \in {} |-> <<>>]
  /\ slice = <<>>
  /\ el = 0
  /\ seen = {}
  /\ tVal = <<>>
  /\ first = TRUE
  /\ pc = "start"
  /\ err = NoErr
  /\ markers = <<>>
  /\ blocks = <<>>
  /\ substs = <<>>
  /\ peer \in peers

\* The state after construction for a record shape sh and a document of docs.
InitWith(sh, docs) == InitPair(sh, docs, {NoPeer})

\* Documents for the scanner and the block reader: single-line and
\* multi-line blocks, blank and indented lines, and =END= lines with and
\* without text after the marker.
ScanChunks ==
  << <<"=","T","=","a","\n">>,
     <<"=","I","N","=","\n">>,
     <<"=","I","N","="," ","a"," "," ","b"," ","\n">>,
     <<"a","\n">>,
     <<"\n">>,
     <<" ","#","\n">>,
     <<" ","=","B","=","\n">>,
     <<"=","E","N","D","=","\n">>,
     <<"=","E","N","D","="," ","x","\n">>,
     <<"=","E","N","D","=","=","S","U","B","S","T","=","/","a","/","b","/","\n">>,
     <<"=","S","U","B","S","T","=","/","a","/","b","/","\n">>,
     <<"=","T","E","M","P","L","=","z","\n","a","\n">> >>

InitScan == InitWith(Descr, DocsOf(ScanChunks, MaxChunks))

SpecScan == InitScan /\ [][Next]_vars

\* Documents for the SUBST lines: blocks with and without a template call,
\* SUBST lines of the accepted form, with another delimiter and with an
\* empty FROM, and SUBST lines of the rejected forms.
SubstChunks ==
  << <<"=","T","=","a","\n","=","I","N","=","[","[","z","]","]","\n">>,
     <<"=","T","=","a","\n","=","I","N","=","\n","a","b","a","\n">>,
     <<"=","T","E","M","P","L","=","z","\n","a","\n">>,
     <<"=","S","U","B","S","T","=","/","a","/","b","/","\n">>,
     <<"=","S","U","B","S","T","=","/","b","/","[","[","z","]","]","/","\n">>,
     <<"=","S","U","B","S","T","="," ","|","b","|","a","a","|"," ","\n">>,
     <<"=","S","U","B","S","T","=","/","/","b","/","\n">>,
     <<"=","S","U","B","S","T","=","\n">>,
     <<"=","S","U","B","S","T","=","/","a","/","b","\n">>,
     <<"=","S","U","B","S","T","=","/","a","/","b","/","c","/","\n">>,
     <<"=","S","U","B","S","T","=","/","a","/","b","/","i","\n">>,
     <<"a","\n">> >>

InitSubst == InitWith(Descr, DocsOf(SubstChunks, MaxChunks))

SpecSubst == InitSubst /\ [][Next]_vars

\* Documents for the template calls: definitions and redefinitions of one
\* template, with a body that is its own name, a body that prints the data
\* and a body that calls the template, and calls without data, inside
\* brackets, followed by a bracket, with a sequence and with nested brackets.
TemplChunks ==
  << <<"=","T","=","a","\n">>,
     <<"=","T","E","M","P","L","=","z","\n","z","\n">>,
     <<"=","T","E","M","P","L","=","z","\n","{","{",".","}","}","\n">>,
     <<"=","T","E","M","P","L","=","z","\n","[","[","z","]","]","b","\n">>,
     <<"=","I","N","=","[","[","z","]","]","\n">>,
     <<"=","I","N","=","[","[","[","[","z","]","]","]","]","\n">>,
     <<"=","I","N","=","[","[","z","]","]","]","-","[","[","z","]","]","\n">>,
     <<"=","I","N","=","[","[","z"," ","[","a",","," ","b","]","]","]","\n">>,
     <<"=","I","N","=","[","[","z"," ","[","[","a","]","]","]","]","\n">>,
     <<"\n","=","S","U","B","S","T","=","/","z","/","a","/","\n">>,
     <<"a","\n">> >>

InitTempl == InitWith(Descr, DocsOf(TemplChunks, MaxChunks))

SpecTempl == InitTempl /\ [][Next]_vars

\* Documents for a shape of a title and two boolean fields: boolean markers
\* without text, with single-line text and with a multi-line block.
BoolChunks ==
  << <<"=","T","=","a","\n">>,
     <<"=","B","=","\n">>,
     <<"=","B","="," ","n","o","\n">>,
     <<"=","C","=","\n">>,
     <<"=","C","="," ","0","\n">>,
     <<"a","\n">>,
     <<"\n">>,
     <<"=","E","N","D","=","\n">>,
     <<"=","T","E","M","P","L","=","z","\n","a","\n">>,
     <<"=","S","U","B","S","T","=","/","a","/","b","/","\n">> >>

InitBool == InitWith(BoolDescr, DocsOf(BoolChunks, MaxChunks))

SpecBool == InitBool /\ [][Next]_vars

\* Documents for the integer field: numerals with and without a sign, with
\* leading zeros and surrounding blanks, in a multi-line block, built by a
\* template call and rewritten by a SUBST line, payloads that are no
\* numerals, and the first numeral above the largest int64.
IntChunks ==
  << <<"=","T","=","a","\n">>,
     <<"=","N","=","5","\n">>,
     <<"=","N","="," ","+","0","7"," ","\n">>,
     <<"=","N","=","-","3","\n">>,
     <<"=","N","=","\n">>,
     <<" ","1","2","\n">>,
     <<"=","N","=","1","a","\n">>,
     <<"=","N","=","9","2","2","3","3","7","2","0","3","6","8","5","4","7","7","5","8","0","8","\n">>,
     <<"=","N","=","-","\n">>,
     <<"=","T","E","M","P","L","=","z","\n","1","\n">>,
     <<"=","N","=","[","[","z","]","]","2","\n">>,
     <<"=","S","U","B","S","T","=","/","1","/","2","/","\n">> >>

InitInt == InitWith(Descr, DocsOf(IntChunks, MaxChunks))

SpecInt == InitInt /\ [][Next]_vars

\* Documents for the TEMPL marker: names with blanks around them, an empty
\* name, a name with another character, a TEMPL line with and without its
\* line end that the next chunks complete or leave without a body, blank
\* lines, and a SUBST line that empties the body.
DefChunks ==
  << <<"=","T","=","a","\n">>,
     <<"=","T","E","M","P","L","=","z","\n","a","\n">>,
     <<"=","T","E","M","P","L","="," ","z"," ","\n","b","\n">>,
     <<"=","T","E","M","P","L","=","\n","a","\n">>,
     <<"=","T","E","M","P","L","=","z","-","\n","a","\n">>,
     <<"=","T","E","M","P","L","=","z","\n">>,
     <<"\n">>,
     <<"a","\n">>,
     <<"=","S","U","B","S","T","=","/","a","/","/","\n">>,
     <<"=","I","N","=","[","[","z","]","]","\n">>,
     <<"=","T","E","M","P","L","=","z">> >>

InitDef == InitWith(Descr, DocsOf(DefChunks, MaxChunks))

SpecDef == InitDef /\ [][Next]_vars

\* Documents for the split of a call into name and data: a template that
\* prints its data, and calls with a space, a tab, a carriage return, a form
\* feed, a newline and a carriage return with a newline between name and
\* data, and with only whitespace after the name.
CallChunks ==
  << <<"=","T","=","a","\n">>,
     <<"=","T","E","M","P","L","=","z","\n","{","{",".","}","}","\n">>,
     <<"=","I","N","=","[","[","z"," ","x","]","]","\n">>,
     <<"=","I","N","=","[","[","z","\t","x","]","]","\n">>,
     <<"=","I","N","=","[","[","z","\r","x","]","]","\n">>,
     <<"=","I","N","=","[","[","z","\f","x","]","]","\n">>,
     <<"=","I","N","=","[","[","z"," "," ","]","]","\n">>,
     <<"=","I","N","=","[","[","z","\r","]","]","\n">>,
     <<"=","I","N","=","\n","[","[","z","\n","x","]","]","\n">>,
     <<"=","I","N","=","\n","[","[","z","\r","\n","x","]","]","\n">>,
     <<"=","S","U","B","S","T","=","/","x","/","a","/","\n">>,
     <<"a","\n">> >>

InitCall == InitWith(Descr, DocsOf(CallChunks, MaxChunks))

SpecCall == InitCall /\ [][Next]_vars

\* Documents for templates that call templates: a template z registered
\* with two bodies, a template y whose body calls z, and blocks that call y
\* and z.
NestChunks ==
  << <<"=","T","E","M","P","L","=","z","\n","a","\n">>,
     <<"=","T","E","M","P","L","=","z","\n","b","\n">>,
     <<"=","T","E","M","P","L","=","y","\n","[","[","z","]","]","c","\n">>,
     <<"=","T","=","a","\n","=","I","N","=","[","[","y","]","]","-","[","[","z","]","]","\n">>,
     <<"=","T","=","a","\n">>,
     <<"=","I","N","=","[","[","y","]","]","\n">>,
     <<"=","S","U","B","S","T","=","/","a","/","b","/","\n">>,
     <<"a","\n">> >>

InitNest == InitWith(Descr, DocsOf(NestChunks, MaxChunks))

SpecNest == InitNest /\ [][Next]_vars

\* Documents for the loops of the parser: blank and comment lines, lines of
\* multi-line blocks with and without an =END= line, SUBST lines whose
\* output holds a call, and a template with a call of it.
LoopChunks ==
  << <<"=","T","=","a","\n">>,
     <<"=","I","N","=","\n">>,
     <<"=","I","N","=","[","[","z","]","]","\n">>,
     <<"a","\n">>,
     <<"\n">>,
     <<" ","#","\n">>,
     <<"=","E","N","D","=","\n">>,
     <<"=","S","U","B","S","T","=","/","a","/","[","[","z","]","]","/","\n">>,
     <<"=","T","E","M","P","L","=","z","\n","a","\n">> >>

InitLoop == InitWith(Descr, DocsOf(LoopChunks, MaxChunks))

\* The loop of parse has not returned: one of its actions is enabled.
InLoop == pc = "loop"

\* The parse runs in one goroutine that goes on until parse returns: weak
\* fairness of the step before the loop and of the steps of the loop, the
\* latter with its enabling condition written as the state predicate InLoop.
Fairness ==
  /\ WF_vars(Start)
  /\ []<>(~InLoop) \/ []<><<Next>>_vars

SpecLoop == InitLoop /\ [][Next]_vars /\ Fairness

\* Documents for =END= lines: after the marker line of a multi-line block,
\* after its text, after a single-line block, after a SUBST line and at the
\* start of the document, with and without text and with a call.
EndChunks ==
  << <<"=","T","=","a","\n">>,
     <<"=","T","=","\n">>,
     <<"=","E","N","D","=","\n">>,
     <<"=","E","N","D","="," ","x","\n">>,
     <<"=","E","N","D","=","[","[","z","]","]","\n">>,
     <<"=","I","N","=","a","\n">>,
     <<"=","I","N","=","\n">>,
     <<"a","\n">>,
     <<"=","S","U","B","S","T","=","/","a","/","b","/","\n">>,
     <<"=","T","E","M","P","L","=","z","\n","a","\n">> >>

\* The documents are parsed into the shape of the tests and into a shape
\* with a field named End.
InitEnd ==
  \/ InitWith(Descr, DocsOf(EndChunks, MaxChunks))
  \/ InitWith(EndDescr, DocsOf(EndChunks, MaxChunks))

SpecEnd == InitEnd /\ [][Next]_vars

(***************************************************************************)
(* Two invocations of ParseFile that run at the same time.  The second     *)
(* invocation is the record peer; one step of it is one pass of the main   *)
(* loop of parse, as for the first invocation.                             *)
(***************************************************************************)
\* Variant: the registry is one map of the package, shared by all
\* invocations.
registryOfPackage(own, shared) == shared

\* The registry an invocation works on: the map made for its own state.
registry(own, shared) == own

\* parse, up to the loop, on the state p.
parseStart(p) ==
  LET p1 == [p EXCEPT !.slice = addElement(p.slice, p.shape),
                      !.el = Len(p.slice) + 1]
  IN  IF ~p.shape.struct
      THEN [p1 EXCEPT !.pc = "failed",
                      !.err = plainErr("expecting slice of struct", <<>>)]
      ELSE IF Len(p.shape.fields) = 0
      THEN [p1 EXCEPT !.pc = "failed",
                      !.err = plainErr("expecting struct with at least one field",
                                       <<>>)]
      ELSE [p1 EXCEPT !.pc = "loop"]

\* Lines 110 to 114 of parse on the state p: templDef returned td.
parseTempl(p, own, td) ==
  [p EXCEPT !.rest = td.rest,
            !.templates = IF td.ok THEN td.tm ELSE own,
            !.pc = IF td.ok THEN "loop" ELSE "failed",
            !.err = IF td.ok THEN p.err
                    ELSE withContext(p.tVal, td.kind, td.arg)]

\* Lines 123 to 141 of parse on the state p: the marker name with its text.
parseBind(p, name, text) ==
  LET t    == toSnakeCase(p.shape.fields[1].Name)
      isT  == name = t
      grow == isT /\ name \in p.seen
      sl1  == IF grow THEN addElement(p.slice, p.shape) ELSE p.slice
      el1  == IF grow THEN Len(p.slice) + 1 ELSE p.el
      tv1  == IF isT THEN text ELSE p.tVal
      se1  == IF isT THEN {} ELSE p.seen
      sv   == setVal(sl1[el1], p.shape.fields, name, text)
      p1   == [p EXCEPT !.slice = sl1, !.el = el1, !.tVal = tv1, !.seen = se1,
                        !.first = IF isT THEN FALSE ELSE p.first]
  IN  IF name # t /\ p.first
      THEN [p1 EXCEPT !.pc = "failed",
                      !.err = withContext(tv1, "must define title before", name)]
      ELSE IF name \in se1
      THEN [p1 EXCEPT !.pc = "failed",
                      !.err = [NoErr EXCEPT !.kind = "found multiple",
                                            !.arg = name, !.ctx = "test",
                                            !.tval = tv1]]
      ELSE IF ~sv.ok
      THEN [p1 EXCEPT !.pc = "failed",
                      !.err = withContext(tv1, sv.kind, sv.arg)]
      ELSE [p1 EXCEPT !.slice = [sl1 EXCEPT ![el1] = sv.el],
                      !.seen = se1 \cup {name}]

\* Lines 119 to 141 of parse on the state p: readExpandedText returned x.
parseField(p, name, x) ==
  IF ~x.ok
  THEN [p EXCEPT !.rest = x.rest, !.pc = "failed",
                 !.err = withContext(p.tVal, x.kind, x.arg)]
  ELSE parseBind([p EXCEPT !.rest = x.rest], name, x.text)

\* One pass of the loop of parse on the state p: readDef returned rd, and
\* the invocation works on the registry tm.
parseDef(p, tm, rd) ==
  IF ~rd.ok
  THEN [p EXCEPT !.rest = rd.rest, !.pc = "failed",
                 !.err = [NoErr EXCEPT !.kind = "expecting token",
                                       !.nr = rd.nr, !.line = rd.line]]
  ELSE IF rd.name = <<>>
  THEN IF p.first
       THEN [p EXCEPT !.rest = rd.rest, !.pc = "failed",
                      !.err = plainErr("missing title in first test",
                                       toSnakeCase(p.shape.fields[1].Name))]
       ELSE [p EXCEPT !.rest = rd.rest, !.pc = "done"]
  ELSE IF rd.name = TEMPL
  THEN parseTempl(p, p.templates, templDef(tm, rd.rest))
  ELSE IF rd.name = SUBST
  THEN [p EXCEPT !.rest = rd.rest, !.pc = "failed",
                 !.err = withContext(p.tVal,
                           "=SUBST= is only valid at bottom of text block",
                           <<>>)]
  ELSE parseField(p, rd.name, readExpandedText(tm, rd.rest))

\* One step of the invocation p beside an invocation whose registry is
\* shared.
parseStep(p, shared) ==
  IF p.pc = "start" THEN parseStart(p)
  ELSE parseDef(p, registry(p.templates, shared), readDef(p.src, p.rest))

\* The second invocation takes a step.
PeerStep ==
  /\ peer.pc \in {"start", "loop"}
  /\ peer' = parseStep(peer, templates)
  /\ UNCHANGED <<shape, src, rest, templates, slice, el, seen, tVal, first,
                 pc, err, markers, blocks, substs>>

\* The steps of the first invocation, each with the registry of its own
\* state, and the steps of the second one, in any order.
NextPair == Next \/ PeerStep

\* Documents of the first invocation: a template z with the body a, a call
\* of z, a title, a SUBST line and a malformed line.
PairChunks ==
  << <<"=","T","=","a","\n">>,
     <<"=","T","E","M","P","L","=","z","\n","a","\n">>,
     <<"=","I","N","=","[","[","z","]","]","\n">>,
     <<"=","S","U","B","S","T","=","/","a","/","b","/","\n">>,
     <<"a","\n">> >>

\* Documents of the second invocation: one that calls z without defining
\* it, and one that defines z with another body and calls it.
PeerDocs ==
  { <<"=","T","=","b","\n","=","I","N","=","[","[","z","]","]","\n">>,
    <<"=","T","E","M","P","L","=","z","\n","b","\n","=","T","=","b","\n","=","I","N","=","[","[","z","]","]","\n">> }

InitPeers ==
  InitPair(Descr, DocsOf(PairChunks, MaxChunks),
           {StateOf(Descr, d) : d \in PeerDocs})

SpecPair == InitPeers /\ [][NextPair]_vars



(***************************************************************************)
(* Properties.                                                             *)
(***************************************************************************)
Last == markers[Len(markers)]

IsTitleMarker(m) == m.name = title

\* A marker that names a field: neither TEMPL nor SUBST.
IsFieldMarker(m) == m.name # TEMPL /\ m.name # SUBST

\* Errors of readExpandedText.
ExpansionErrors ==
  {"calling unknown template", "invalid YAML data",
   "invalid empty substitution", "invalid substitution"}

\* Fields of the shape whose kind setVal does not support.
Unsupported ==
  {i \in 1..Len(shape.fields) :
     shape.fields[i].Kind \notin {"string", "int", "bool"}}

\* No field of the shape has the marker name n.
Unknown(n) ==
  \A i \in 1..Len(shape.fields) : toSnakeCase(shape.fields[i].Name) # n

\* C1: on every successful parse the output holds exactly one record per
\* title marker read as a leading marker, in document order, and record k
\* holds the expanded text of the k-th title marker as its title.
C1_OneRecordPerTitle ==
  pc = "done" =>
    LET ts == SelectSeq(markers, IsTitleMarker)
    IN  /\ Len(slice) = Len(ts)
        /\ \A k \in 1..Len(ts) : slice[k][1] = ts[k].text

C1_Witness ==
  /\ pc = "done"
  /\ Len(slice) >= 2
  /\ slice[1][1] # slice[2][1]

\* C2 as stated: a field marker read before any title marker always makes
\* the parse fail with "must define =TITLE= before =NAME=", and sets no field.
C2_Original ==
  \A i \in 1..Len(markers) :
    (IsFieldMarker(markers[i]) /\ ~IsTitleMarker(markers[i])
       /\ ~markers[i].open)
    => /\ pc = "failed"
       /\ err.kind = "must define title before"
       /\ err.arg = markers[i].name
       /\ slice = <<ZeroElement(shape)>>

\* C2 amended: a field marker read before any title marker makes the parse
\* fail and sets no field; the error is "must define =TITLE= before =NAME="
\* in file context when the marker's block expands, and the error of the
\* expansion otherwise.
C2_MustDefineTitle ==
  \A i \in 1..Len(markers) :
    (IsFieldMarker(markers[i]) /\ ~IsTitleMarker(markers[i])
       /\ ~markers[i].open)
    => /\ pc = "failed"
       /\ i = Len(markers)
       /\ IF markers[i].xok
          THEN /\ err.kind = "must define title before"
               /\ err.arg = markers[i].name
               /\ err.ctx = "file"
          ELSE err.kind \in ExpansionErrors
       /\ slice = <<ZeroElement(shape)>>

C2_Witness ==
  /\ pc = "failed"
  /\ err.kind = "must define title before"
  /\ Len(markers) >= 2
  /\ Last.text # <<>>

\* Marker i repeats the name of marker j, bound earlier in the same record.
Repeats(i, j) ==
  /\ j < i
  /\ markers[j].name = markers[i].name
  /\ markers[j].bound
  /\ IsFieldMarker(markers[i])
  /\ ~IsTitleMarker(markers[i])
  /\ \A k \in (j+1)..(i-1) : ~IsTitleMarker(markers[k])

\* C3 as stated: a second occurrence of a field marker in one record always
\* makes the parse fail with the duplicate-marker error.
C3_Original ==
  \A i \in 1..Len(markers) : \A j \in 1..Len(markers) :
    Repeats(i, j)
    => /\ pc = "failed"
       /\ err.kind = "found multiple"
       /\ err.arg = markers[i].name

\* C3 amended: a second occurrence of a field marker in one record makes the
\* parse fail and leaves the field as the first occurrence set it, also with
\* TEMPL definitions in between; the error is "found multiple =NAME= in test
\* with =TITLE=value" when the second block expands, and the error of the
\* expansion otherwise.
C3_DuplicateMarker ==
  \A i \in 1..Len(markers) : \A j \in 1..Len(markers) :
    Repeats(i, j)
    => /\ pc = "failed"
       /\ i = Len(markers)
       /\ IF markers[i].xok
          THEN /\ err.kind = "found multiple"
               /\ err.arg = markers[i].name
               /\ err.ctx = "test"
               /\ err.tval = tVal
          ELSE err.kind \in ExpansionErrors
       /\ slice[Len(slice)][fieldOf(shape.fields, markers[j].name)]
            = markers[j].text

C3_Witness ==
  /\ pc = "failed"
  /\ err.kind = "found multiple"
  /\ \E j \in 1..Len(markers) : \E k \in 1..Len(markers) :
       /\ Repeats(Len(markers), j)
       /\ j < k
       /\ markers[k].name = TEMPL

\* C4 as stated: with a record open, a field marker whose name is not the
\* derived name of any field always makes the parse fail with
\* "unexpected =NAME=".
C4_Original ==
  \A i \in 1..Len(markers) :
    (markers[i].open /\ IsFieldMarker(markers[i]) /\ Unknown(markers[i].name))
    => /\ pc = "failed"
       /\ err.kind = "unexpected"
       /\ err.arg = markers[i].name

\* Every text field of every record is empty or holds the expanded text of
\* a marker with exactly the field's derived name.
BoundByName ==
  \A r \in 1..Len(slice) : \A f \in 1..Len(shape.fields) :
    shape.fields[f].Kind = "string"
    => \/ slice[r][f] = <<>>
       \/ \E j \in 1..Len(markers) :
            /\ markers[j].name = toSnakeCase(shape.fields[f].Name)
            /\ markers[j].bound
            /\ markers[j].text = slice[r][f]

\* C4 amended: with a record open, a field marker whose name is not the
\* derived name of any field (compared case-sensitively) makes the parse
\* fail and binds to no field; the error is "unexpected =NAME=" when the
\* marker's block expands, and the error of the expansion otherwise.
C4_UnexpectedMarker ==
  /\ \A i \in 1..Len(markers) :
       (markers[i].open /\ IsFieldMarker(markers[i])
          /\ Unknown(markers[i].name))
       => /\ pc = "failed"
          /\ i = Len(markers)
          /\ IF markers[i].xok
             THEN err.kind = "unexpected" /\ err.arg = markers[i].name
             ELSE err.kind \in ExpansionErrors
  /\ (pc # "start" /\ shape.struct) => BoundByName

C4_Witness ==
  /\ pc = "failed"
  /\ err.kind = "unexpected"
  /\ Last.open
  /\ Last.name = <<"i", "n">>
  /\ ToUpper(Last.name) = toSnakeCase(shape.fields[2].Name)

\* The main loop is about to read the end of the input.
AtEndOfInput ==
  /\ pc = "loop"
  /\ readDef(src, rest).ok
  /\ readDef(src, rest).name = <<>>

\* C5: a parse yields at least one record or fails: reaching the end of the
\* input without a title marker gives "missing =TITLE= in first test of
\* file", and a parse that succeeds has read a title marker.
C5_RecordOrFail ==
  [][ /\ (AtEndOfInput /\ \A i \in 1..Len(markers) : ~IsTitleMarker(markers[i]))
         => (pc' = "failed" /\ err'.kind = "missing title in first test")
      /\ pc' = "done"
         => /\ \E i \in 1..Len(markers') : IsTitleMarker(markers'[i])
            /\ Len(slice') >= 1 ]_vars

C5_Witness ==
  /\ pc = "failed"
  /\ err.kind = "missing title in first test"
  /\ Len(markers) >= 1
  /\ rest = <<>>

\* Offset of the line after the line that holds offset p.
LineEnd(p) == p + Len(getLine(From(src, p)))

\* Offset at which the text of a block ends.
TextEnd(b) == IF b.multi THEN LineEnd(b.from) + Len(b.text) ELSE b.after

\* C6: a SUBST line is accepted only directly after the text of a block or
\* after another SUBST line of that block; a SUBST marker read as a leading
\* marker makes the parse fail with "=SUBST= is only valid at bottom of text
\* block" and applies no substitution.
C6_SubstPosition ==
  /\ \A i \in 1..Len(markers) :
       markers[i].name = SUBST
       => /\ pc = "failed"
          /\ i = Len(markers)
          /\ err.kind = "=SUBST= is only valid at bottom of text block"
          /\ \A k \in 1..Len(substs) : substs[k].at # markers[i].at
  /\ \A k \in 1..Len(substs) :
       (substs[k].at = 0 \/ src[substs[k].at] = "\n")
       => \/ substs[k].at = TextEnd(blocks[substs[k].blk])
          \/ /\ k > 1
             /\ substs[k-1].blk = substs[k].blk
             /\ substs[k].at = LineEnd(substs[k-1].at)

C6_Witness ==
  /\ pc = "failed"
  /\ err.kind = "=SUBST= is only valid at bottom of text block"
  /\ Last.at >= 6
  /\ HasPrefixAt(src, Last.at - 5, <<"=","E","N","D","=","\n">>)
  /\ blocks # <<>>
  /\ blocks[Len(blocks)].multi

\* C7: when the parse returns an error, the record list of the caller holds
\* no record.
C7_NoRecordsOnError == pc = "failed" => slice = <<>>

\* C8 as stated: a shape with a field of an unsupported type is rejected
\* before any marker of the document is read.
C8_Original ==
  (shape.struct /\ Unsupported # {}) => (markers = <<>> /\ pc # "done")

\* Marker m names a field of an unsupported type.
NamesUnsupported(m) ==
  \E f \in Unsupported : toSnakeCase(shape.fields[f].Name) = m.name

\* C8 amended: a field of an unsupported type is rejected with "unexpected
\* type" only when a marker for that field is bound, after the marker's block
\* has been read and expanded with a record open; a document without such a
\* marker is parsed as if the field were not declared.
C8_TypeErrorOnBind ==
  /\ \A i \in 1..Len(markers) :
       (markers[i].open /\ markers[i].xok /\ NamesUnsupported(markers[i]))
       => /\ pc = "failed"
          /\ i = Len(markers)
          /\ err.kind = "unexpected type of struct field"
          /\ toSnakeCase(err.arg) = markers[i].name
  /\ err.kind = "unexpected type of struct field"
     => /\ markers # <<>>
        /\ NamesUnsupported(Last)
        /\ Last.xok
        /\ ~first

C8_Witness ==
  /\ pc = "failed"
  /\ err.kind = "unexpected type of struct field"
  /\ Len(markers) >= 2
  /\ slice[1][1] # <<>>

\* C9: an error raised by the main loop while a record is open carries the
\* context "in test with =TITLE=value", and one raised before any record is
\* open carries "in file NAME"; errors of the scanner, which carry the line
\* and the file, and the missing-title error are left aside.
C9_ContextByOpenRecord ==
  (pc = "failed" /\ markers # <<>> /\ err.kind # "expecting token"
     /\ err.kind # "missing title in first test")
  => IF ~first THEN err.ctx = "test" ELSE err.ctx = "file"

\* Offset p starts a line of the document.
IsLineStart(p) == p = 0 \/ src[p] = "\n"

\* The accumulation stops at the line at offset p: a marker line or the end
\* of the input.
StopsAtMarker(p) == p = Len(src) \/ checkDef(getLine(From(src, p))) # <<>>

\* The accumulation stops at the line at offset p: a marker line, a blank
\* line or the end of the input.
StopsAtMarkerOrBlank(p) ==
  StopsAtMarker(p) \/ TrimSpace(getLine(From(src, p))) = <<>>

\* The first line at or after offset ls at which the accumulation stops.
BlockStop(ls, Stops(_)) ==
  CHOOSE p \in ls..Len(src) :
    /\ IsLineStart(p)
    /\ Stops(p)
    /\ \A q \in ls..(p-1) : IsLineStart(q) => ~Stops(q)

IsEndLine(p) == checkDef(getLine(From(src, p))) = <<"E","N","D">>

\* C10 as stated: the text of a multi-line block is the lines up to the
\* first marker line, blank line or end of input, and a terminating marker
\* line other than =END=, or a terminating blank line, is not consumed.
C10_Original ==
  \A k \in 1..Len(blocks) :
    blocks[k].multi
    => LET ls   == LineEnd(blocks[k].from)
           stop == BlockStop(ls, StopsAtMarkerOrBlank)
       IN  /\ blocks[k].text = Slice(src, ls, stop)
           /\ ~IsEndLine(stop) => blocks[k].after = stop

\* C10 amended: the text of a multi-line block is the concatenation, with
\* the original line terminators, of the lines up to the first marker line
\* or the end of the input, blank lines included; a terminating marker line
\* other than =END= is not consumed.
C10_MultiLineText ==
  \A k \in 1..Len(blocks) :
    blocks[k].multi
    => LET ls   == LineEnd(blocks[k].from)
           stop == BlockStop(ls, StopsAtMarker)
       IN  /\ blocks[k].text = Slice(src, ls, stop)
           /\ ~IsEndLine(stop) => blocks[k].after = stop

C10_Witness ==
  \E k \in 1..Len(blocks) :
    /\ blocks[k].multi
    /\ \E i \in 1..(Len(blocks[k].text) - 1) :
         blocks[k].text[i] = "\n" /\ blocks[k].text[i+1] = "\n"
    /\ blocks[k].after < Len(src)
    /\ ~IsEndLine(blocks[k].after)

(***************************************************************************)
(* Properties of the scanner and the block reader.                         *)
(***************************************************************************)
\* 1-based number of the line that holds offset p.
LineNo(p) == 1 + Count(Slice(src, 0, p), "\n")

\* The line that holds offset p, from p on, without its terminator.
LineFrom(p) == TrimSuffixNL(getLine(From(src, p)))

\* Offset of the line at which the accumulation of multi-line block k stops.
StopOf(k) == BlockStop(LineEnd(blocks[k].from), StopsAtMarker)

\* Block k is a multi-line block closed by an =END= line.
EndClosed(k) ==
  /\ blocks[k].multi
  /\ StopOf(k) < Len(src)
  /\ IsEndLine(StopOf(k))

\* The SUBST rules applied to block k, in the order applied.
RECURSIVE RulesFrom(_, _)
RulesFrom(k, i) ==
  IF i > Len(substs) THEN <<>>
  ELSE (IF substs[i].blk = k THEN <<substs[i]>> ELSE <<>>) \o RulesFrom(k, i + 1)

RulesOf(k) == RulesFrom(k, 1)

\* The scanner has rejected the text at offset p.
RejectedAt(p) ==
  pc = "failed" /\ err.kind = "expecting token" /\ Off(rest) = p

BlankOrComment(line) ==
  TrimSpace(line) = <<>> \/ TrimSpace(line)[1] = "#"

\* C11 as stated: a multi-line block closed by an =END= line excludes that
\* line from its text, END is never read as a marker for it, the next marker
\* read starts on a later line, and nothing of the =END= line is scanned as
\* a SUBST rule or reported as a malformed line.
C11_Original ==
  \A k \in 1..Len(blocks) :
    EndClosed(k)
    => LET stop == StopOf(k)
       IN  /\ blocks[k].text = Slice(src, LineEnd(blocks[k].from), stop)
           /\ \A i \in 1..Len(markers) :
                ~(stop <= markers[i].at /\ markers[i].at < LineEnd(stop))
           /\ \A i \in 1..Len(substs) :
                ~(stop <= substs[i].at /\ substs[i].at < LineEnd(stop))
           /\ \A p \in stop..(LineEnd(stop) - 1) : ~RejectedAt(p)

\* C11 amended: a multi-line block closed by a line that starts with =END=
\* excludes that line from its text and END is never read as a marker for
\* it, but only the five characters =END= are consumed and the rest of the
\* line is scanned next: a blank or comment rest is skipped, so that no SUBST
\* line after the =END= line is a rule of the block; a SUBST marker directly
\* after =END= is applied to the block; any other text there that is no
\* marker is a malformed line reported with the number of the =END= line.
C11_EndMarkerConsumed ==
  \A k \in 1..Len(blocks) :
    EndClosed(k)
    => LET stop == StopOf(k)
           tail == LineFrom(stop + 5)
       IN  /\ blocks[k].text = Slice(src, LineEnd(blocks[k].from), stop)
           /\ blocks[k].after = stop + 5
           /\ \A i \in 1..Len(markers) :
                ~(stop <= markers[i].at /\ markers[i].at < stop + 5)
           /\ RulesOf(k) # <<>> => RulesOf(k)[1].at = stop + 5
           /\ BlankOrComment(tail)
              => /\ RulesOf(k) = <<>>
                 /\ ~RejectedAt(stop + 5)
                 /\ \A i \in (k+1)..Len(markers) :
                      markers[i].at >= LineEnd(stop)
           /\ (~BlankOrComment(tail) /\ checkDef(tail) = <<>>)
              => /\ pc # "done"
                 /\ (pc = "loop" /\ Len(blocks) = k) => Off(rest) = stop + 5
                 /\ RejectedAt(stop + 5)
                    => err.nr = LineNo(stop) /\ err.line = tail

C11_Witness ==
  /\ \E k \in 1..Len(blocks) : EndClosed(k) /\ RejectedAt(StopOf(k) + 5)
  /\ err.nr >= 3
  /\ markers[Len(markers)].bound

\* Offset of the first line at or after the line start p that is neither
\* blank nor a comment; the length of the document if there is none.
RECURSIVE SkipBlank(_)
SkipBlank(p) ==
  IF p >= Len(src) THEN Len(src)
  ELSE IF BlankOrComment(getLine(From(src, p))) THEN SkipBlank(LineEnd(p))
  ELSE p

\* C12: a single-line block is the rest of the marker's line with the
\* surrounding whitespace trimmed and the inner whitespace kept, and the
\* cursor is then at the start of the next line; the block does not continue:
\* when the first following line that is neither blank nor a comment is no
\* marker line, the parse never succeeds, and once the marker is bound the
\* scanner rejects exactly that line.
C12_SingleLineText ==
  \A k \in 1..Len(blocks) :
    ~blocks[k].multi
    => LET nl == LineEnd(blocks[k].from)
           q  == SkipBlank(nl)
       IN  /\ blocks[k].text = TrimSpace(Slice(src, blocks[k].from, nl))
           /\ blocks[k].text # <<>>
           /\ blocks[k].after = nl
           /\ (q < Len(src) /\ checkDef(getLine(From(src, q))) = <<>>)
              => /\ pc # "done"
                 /\ k = Len(blocks)
                 /\ markers[k].bound
                    => \/ pc = "loop" /\ Off(rest) = nl
                       \/ /\ RejectedAt(q)
                          /\ err.nr = LineNo(q)
                          /\ err.line = LineFrom(q)

C12_Witness ==
  /\ blocks # <<>>
  /\ ~blocks[Len(blocks)].multi
  /\ \E i \in 1..(Len(blocks[Len(blocks)].text) - 1) :
       blocks[Len(blocks)].text[i] = " " /\ blocks[Len(blocks)].text[i+1] = " "
  /\ markers[Len(blocks)].bound
  /\ RejectedAt(SkipBlank(LineEnd(blocks[Len(blocks)].from)))
  /\ SkipBlank(LineEnd(blocks[Len(blocks)].from))
       > LineEnd(blocks[Len(blocks)].from)

\* Offset at which the n-th line of the document starts.
RECURSIVE LineStartOf(_)
LineStartOf(n) == IF n <= 1 THEN 0 ELSE LineEnd(LineStartOf(n - 1))

\* The line that starts at offset q is a marker line after leading whitespace.
IndentedMarker(q) ==
  LET line == getLine(From(src, q))
  IN  /\ IsLineStart(q)
      /\ q < Len(src)
      /\ TrimLeft(line) # line
      /\ checkDef(TrimLeft(line)) # <<>>

\* Offset q lies in the text of a multi-line block.
InBlockText(q) ==
  \E k \in 1..Len(blocks) :
    /\ blocks[k].multi
    /\ LineEnd(blocks[k].from) <= q
    /\ q < LineEnd(blocks[k].from) + Len(blocks[k].text)

\* C13: when the scanner rejects a line, the reported number is that of the
\* source line holding the rejected text, counted from 1, whatever was read
\* before, and the reported text is that line (after =END=, its rest); the
\* rejected line is never blank or a comment, also when indented; an indented
\* marker line is never read as a marker: it is block text or it is rejected.
C13_LineNumber ==
  /\ (pc = "failed" /\ err.kind = "expecting token")
     => LET p  == Off(rest)
            ls == LineStartOf(err.nr)
        IN  /\ err.nr >= 1
            /\ ls <= p
            /\ p < LineEnd(ls)
            /\ IsLineStart(ls)
            /\ p = ls \/ (p = ls + 5 /\ IsEndLine(ls))
            /\ err.line = LineFrom(p)
            /\ ~BlankOrComment(err.line)
            /\ checkDef(err.line) = <<>>
  /\ \A q \in 0..Len(src) :
       IndentedMarker(q)
       => /\ \A i \in 1..Len(markers) :
               ~(q <= markers[i].at /\ markers[i].at < LineEnd(q))
          /\ pc = "done" => InBlockText(q)

C13_Witness ==
  /\ RejectedAt(Off(rest))
  /\ IndentedMarker(Off(rest))
  /\ err.nr >= 4
  /\ \E k \in 1..Len(blocks) : EndClosed(k)
  /\ src[Off(rest) - 1] = "#"

(***************************************************************************)
(* Properties of the expansion pipeline.                                   *)
(***************************************************************************)
\* The rules rs applied in order from rule i on, each to the output of the
\* previous one.
RECURSIVE FoldRules(_, _, _)
FoldRules(text, rs, i) ==
  IF i > Len(rs) THEN text
  ELSE FoldRules(ReplaceAll(text, rs[i].from, rs[i].to), rs, i + 1)

\* The name given on the line of the TEMPL marker number i.
TemplNameAt(i) == readTemplName(From(src, markers[i].at + 7)).name

\* The registry r with name n set to body b.
Override(r, n, b) ==
  [k \in DOMAIN r \cup {n} |-> IF k = n THEN b ELSE r[k]]

\* RegAt(j): the registry after the first j markers, the latest definition
\* of a name replacing the earlier ones.  ExpandedOf(i): the text of block
\* i, template calls resolved against the registry before marker i, then
\* the rules of the block.
RECURSIVE RegAt(_)
RECURSIVE ExpandedOf(_)
RegAt(j) ==
  IF j = 0 THEN [k \in {} |-> <<>>]
  ELSE IF markers[j].name = TEMPL /\ markers[j].xok
  THEN Override(RegAt(j - 1), TemplNameAt(j), TrimSuffixNL(ExpandedOf(j)))
  ELSE RegAt(j - 1)

ExpandedOf(i) ==
  FoldRules(doTemplSubst(RegAt(i - 1), blocks[i].text).text, RulesOf(i), 1)

Occurs(text, sub) == \E i \in 1..Len(text) : HasPrefixAt(text, i, sub)

\* C14: the text bound for a marker, and the body stored for a template, is
\* the block with its template calls expanded first and the SUBST rules of
\* the block applied afterwards in the order declared, each to the output of
\* the previous rule; a rule with a one-character FROM that TO does not
\* contain leaves no occurrence of FROM in its output.
C14_SubstAfterTemplates ==
  \A i \in 1..Len(markers) :
    /\ (IsFieldMarker(markers[i]) /\ markers[i].xok)
       => /\ markers[i].text = ExpandedOf(i)
          /\ \A n \in 1..Len(RulesOf(i)) :
               LET rs  == RulesOf(i)
                   out == FoldRules(doTemplSubst(RegAt(i - 1),
                                                 blocks[i].text).text,
                                    SubSeq(rs, 1, n), 1)
               IN  (Len(rs[n].from) = 1 /\ ~Occurs(rs[n].to, rs[n].from))
                   => ~Occurs(out, rs[n].from)
    /\ (markers[i].name = TEMPL /\ markers[i].xok /\ i = Len(markers))
       => templates[TemplNameAt(i)] = TrimSuffixNL(ExpandedOf(i))

C14_Witness ==
  /\ markers # <<>>
  /\ Last.bound
  /\ Last.text = <<"[","[","z","]","]">>
  /\ blocks[Len(blocks)].text = <<"[","[","z","]","]">>
  /\ Len(RulesOf(Len(blocks))) = 2

\* Shape of the payload of the SUBST line at offset p.
SubstLineAt(p) == p < Len(src) /\ checkDef(getLine(From(src, p))) = SUBST

PayloadAt(p) == TrimSpace(From(getLine(From(src, p)), 7))

\* <d>FROM<d>TO<d>: the first character occurs three times and ends the
\* payload.
WellFormed(pl) ==
  /\ pl # <<>>
  /\ Count(pl, pl[1]) = 3
  /\ pl[Len(pl)] = pl[1]

\* Index of the second delimiter of a well-formed payload.
MidOf(pl) == CHOOSE i \in 2..(Len(pl) - 1) : pl[i] = pl[1]

\* Offset of the first rejected SUBST line in the run of SUBST lines that
\* starts at offset p, -1 if there is none; and the accepted lines before it.
RECURSIVE FirstBad(_)
FirstBad(p) ==
  IF ~SubstLineAt(p) THEN -1
  ELSE IF WellFormed(PayloadAt(p)) THEN FirstBad(LineEnd(p))
  ELSE p

RECURSIVE GoodBefore(_)
GoodBefore(p) ==
  IF SubstLineAt(p) /\ WellFormed(PayloadAt(p)) THEN 1 + GoodBefore(LineEnd(p))
  ELSE 0

InvalidSubst == {"invalid empty substitution", "invalid substitution"}

\* The template calls of block k failed, so that its SUBST lines were not
\* scanned.
CallsFailed(k) ==
  /\ k = Len(blocks)
  /\ pc = "failed"
  /\ err.kind \in {"calling unknown template", "invalid YAML data"}

\* C15: every rule applied comes from a SUBST line whose trimmed payload is
\* <d>FROM<d>TO<d>; the first SUBST line of another form in the run of SUBST
\* lines scanned after a block, a template body included, makes the parse
\* fail with an invalid-substitution error, only the rules before it having
\* been applied and the block bound to nothing.
C15_SubstForm ==
  /\ \A n \in 1..Len(substs) :
       LET pl == PayloadAt(substs[n].at)
       IN  /\ SubstLineAt(substs[n].at)
           /\ WellFormed(pl)
           /\ substs[n].from = SubSeq(pl, 2, MidOf(pl) - 1)
           /\ substs[n].to = SubSeq(pl, MidOf(pl) + 1, Len(pl) - 1)
  /\ \A k \in 1..Len(blocks) :
       ~CallsFailed(k)
       => LET bad == FirstBad(blocks[k].after)
          IN  /\ Len(RulesOf(k)) = GoodBefore(blocks[k].after)
              /\ bad # -1
                 => /\ pc = "failed"
                    /\ k = Len(blocks)
                    /\ err.kind \in InvalidSubst
                    /\ err.kind = "invalid empty substitution"
                         <=> PayloadAt(bad) = <<>>
                    /\ Off(rest) = LineEnd(bad)
                    /\ ~markers[k].xok
                    /\ ~markers[k].bound
                    /\ markers[k].name = TEMPL
                       => templates = RegAt(k - 1)
              /\ (bad = -1 /\ k = Len(blocks)) => err.kind \notin InvalidSubst
  /\ err.kind \in InvalidSubst => blocks # <<>>

C15_Witness ==
  /\ pc = "failed"
  /\ err.kind = "invalid substitution"
  /\ Last.name = TEMPL
  /\ RulesOf(Len(blocks)) # <<>>
  /\ Count(PayloadAt(FirstBad(blocks[Len(blocks)].after)), "/") = 4

(***************************************************************************)
(* Properties of the template registry and the template calls.             *)
(***************************************************************************)
\* Names registered by the TEMPL markers before marker k.
RegisteredBefore(k) ==
  {TemplNameAt(j) : j \in {i \in 1..(k-1) :
                             markers[i].name = TEMPL /\ markers[i].xok}}

\* The call text[s..e) without its brackets: the name, and whether the data
\* part, if any, decodes.
CallOf(text, m) ==
  LET pair == Slice(text, m[1] + 2, m[2] - 2)
      i    == IndexAny(pair, {" ", "\t", "\n"})
  IN  [name |-> IF i # -1 THEN Slice(pair, 0, i) ELSE pair,
       dataok |-> IF i # -1 THEN yamlUnmarshal(From(pair, i + 1)).ok ELSE TRUE]

\* The calls of a block text, left to right.
CallsOf(text) ==
  [n \in 1..Len(templRxFindAll(text, 1)) |->
     CallOf(text, templRxFindAll(text, 1)[n])]

\* Number of the first call that cannot be expanded with the names reg, 0
\* if every call can.
FirstFail(cs, reg) ==
  IF \E n \in 1..Len(cs) : ~cs[n].dataok \/ cs[n].name \notin reg
  THEN CHOOSE n \in 1..Len(cs) :
         /\ ~cs[n].dataok \/ cs[n].name \notin reg
         /\ \A j \in 1..(n-1) : cs[j].dataok /\ cs[j].name \in reg
  ELSE 0

CallErrors == {"calling unknown template", "invalid YAML data"}

\* C16 as stated: a call to a name that no earlier TEMPL of the document has
\* registered always makes the parse fail with "calling unknown template"
\* naming it.
C16_Original ==
  \A k \in 1..Len(blocks) :
    \A n \in 1..Len(CallsOf(blocks[k].text)) :
      CallsOf(blocks[k].text)[n].name \notin RegisteredBefore(k)
      => /\ pc = "failed"
         /\ err.kind = "calling unknown template"
         /\ err.arg = CallsOf(blocks[k].text)[n].name

\* C16 amended: a block expands only if every call in it names a template
\* registered by an earlier TEMPL of the document and has data that decodes;
\* otherwise the parse fails on the first such call, left to right, with
\* "invalid YAML data" if its data does not decode, the data being decoded
\* before the name is looked up, and with "calling unknown template" naming
\* it if its name is not registered so far.
C16_UnknownTemplate ==
  \A k \in 1..Len(blocks) :
    LET cs == CallsOf(blocks[k].text)
        f  == FirstFail(cs, RegisteredBefore(k))
    IN  /\ f # 0
           => /\ pc = "failed"
              /\ k = Len(blocks)
              /\ ~markers[k].xok
              /\ ~markers[k].bound
              /\ err.arg = cs[f].name
              /\ err.kind = IF cs[f].dataok THEN "calling unknown template"
                            ELSE "invalid YAML data"
        /\ (f = 0 /\ k = Len(blocks)) => err.kind \notin CallErrors

C16_Witness ==
  /\ pc = "failed"
  /\ err.kind = "calling unknown template"
  /\ Last.name = TEMPL
  /\ TemplNameAt(Len(markers)) = err.arg
  /\ Len(markers) >= 2

\* C17: the registry is the one obtained by letting each successful TEMPL
\* replace the earlier entry of its name, so that registering a name again
\* with the same body changes nothing, and a block that is just a call of a
\* name, read after several TEMPL of that name, is bound to the body of the
\* latest of them only.
C17_LatestBody ==
  /\ pc # "start" => templates = RegAt(Len(markers))
  /\ \A i \in 1..Len(markers) : \A j \in 1..(i-1) :
       ( /\ markers[i].bound
         /\ RulesOf(i) = <<>>
         /\ markers[j].name = TEMPL
         /\ markers[j].xok
         /\ blocks[i].text = <<"[", "[">> \o TemplNameAt(j) \o <<"]", "]">>
         /\ \A n \in (j+1)..(i-1) :
              ~(markers[n].name = TEMPL /\ TemplNameAt(n) = TemplNameAt(j)) )
       => markers[i].text
            = Execute(TrimSuffixNL(ExpandedOf(j)), <<>>)

C17_Witness ==
  /\ Len(markers) = 4
  /\ markers[1].name = TEMPL
  /\ markers[2].name = TEMPL
  /\ TemplNameAt(1) = TemplNameAt(2)
  /\ blocks[1].text # blocks[2].text
  /\ Last.bound
  /\ Last.text = <<"z", "b">>

\* The text of one call: the template of its name run on its data.
CallOutput(reg, pair) ==
  LET i == IndexAny(pair, {" ", "\t", "\n"})
  IN  IF i = -1 THEN Execute(reg[pair], <<>>)
      ELSE Execute(reg[Slice(pair, 0, i)], yamlUnmarshal(From(pair, i + 1)).data)

\* One pass over the text from index p on: a call that starts at p is
\* replaced by its output and the pass goes on behind the call; any other
\* character is copied.
RECURSIVE ExpandOnce(_, _, _)
ExpandOnce(reg, text, p) ==
  IF p > Len(text) THEN <<>>
  ELSE IF templRxAt(text, p) = 0
  THEN <<text[p]>> \o ExpandOnce(reg, text, p + 1)
  ELSE CallOutput(reg, SubSeq(text, p + 2, templRxAt(text, p) - 3))
         \o ExpandOnce(reg, text, templRxAt(text, p))

\* C18: the text bound for a marker is the result of one pass over the text
\* of the block, left to right, in which each call is replaced by its
\* output and every other character is copied, followed by the rules of the
\* block; the output of a call is not scanned again, so that the call of a
\* template with body z inside two more pairs of brackets yields [[z]].
C18_SinglePass ==
  \A i \in 1..Len(markers) :
    (IsFieldMarker(markers[i]) /\ markers[i].xok)
    => /\ markers[i].text
            = FoldRules(ExpandOnce(RegAt(i - 1), blocks[i].text, 1),
                        RulesOf(i), 1)
       /\ ( /\ blocks[i].text = <<"[","[","[","[","z","]","]","]","]">>
            /\ RegAt(i - 1)[<<"z">>] = <<"z">>
            /\ RulesOf(i) = <<>> )
          => markers[i].text = <<"[","[","z","]","]">>

C18_Witness ==
  /\ pc = "done"
  /\ Last.bound
  /\ blocks[Len(blocks)].text = <<"[","[","[","[","z","]","]","]","]">>
  /\ Last.text = <<"[","[","z","]","]">>
  /\ templates[<<"z">>] = <<"z">>

\* The part of s behind its first run of white space; <<>> if it has none.
DataPart(s) ==
  IF \E i \in 1..Len(s) : s[i] \in RxSpace
  THEN LET i == CHOOSE i \in 1..Len(s) :
                  s[i] \in RxSpace /\ \A j \in 1..(i-1) : s[j] \notin RxSpace
       IN  SubSeq(s, i + SpaceRun(s, i), Len(s))
  ELSE <<>>

HasData(s) == \E i \in 1..Len(s) : s[i] \in RxSpace

\* C19: in every block, a call without data is [[name]] and nothing more;
\* the data of a call holds no "]]", and a "]" that follows a call with data
\* was preceded by a "]" taken as the end of the data.  So [[z [a, b]]]
\* passes the sequence, [[z]]] leaves the third bracket as text, and
\* [[z [[a]]]] is cut to the data [[a] and fails to decode.
C19_ClosingBrackets ==
  /\ \A k \in 1..Len(blocks) :
       \A n \in 1..Len(templRxFindAll(blocks[k].text, 1)) :
         LET text  == blocks[k].text
             m     == templRxFindAll(text, 1)[n]
             inner == Slice(text, m[1] + 2, m[2] - 2)
         IN  /\ HasPrefixAt(text, m[1] + 1, <<"[", "[">>)
             /\ HasPrefixAt(text, m[2] - 1, <<"]", "]">>)
             /\ ~HasData(inner) => (inner # <<>> /\ isName(inner))
             /\ HasData(inner)
                => /\ ~Occurs(DataPart(inner), <<"]", "]">>)
                   /\ (m[2] < Len(text) /\ text[m[2] + 1] = "]")
                      => /\ DataPart(inner) # <<>>
                         /\ DataPart(inner)[Len(DataPart(inner))] = "]"
  /\ \A i \in 1..Len(blocks) :
       /\ ( /\ blocks[i].text
                 = <<"[","[","z"," ","[","a",","," ","b","]","]","]">>
            /\ <<"z">> \in RegisteredBefore(i)
            /\ RegAt(i - 1)[<<"z">>] = <<"{","{",".","}","}">>
            /\ RulesOf(i) = <<>> )
          => markers[i].xok /\ markers[i].text = <<"[","a"," ","b","]">>
       /\ ( /\ blocks[i].text
                 = <<"[","[","z","]","]","]","-","[","[","z","]","]">>
            /\ <<"z">> \in RegisteredBefore(i)
            /\ RulesOf(i) = <<>> )
          => /\ markers[i].xok
             /\ markers[i].text
                  = Execute(RegAt(i - 1)[<<"z">>], <<>>) \o <<"]", "-">>
                      \o Execute(RegAt(i - 1)[<<"z">>], <<>>)
       /\ blocks[i].text = <<"[","[","z"," ","[","[","a","]","]","]","]">>
          => /\ ~markers[i].xok
             /\ pc = "failed"
             /\ err.kind = "invalid YAML data"

C19_Witness ==
  /\ pc = "done"
  /\ Last.bound
  /\ blocks[Len(blocks)].text
       = <<"[","[","z"," ","[","a",","," ","b","]","]","]">>
  /\ Last.text = <<"[","a"," ","b","]">>

(***************************************************************************)
(* Properties of the field binding.                                        *)
(***************************************************************************)
\* A line of the document is a marker line with the name n.
MarkerOccurs(n) ==
  \E p \in 0..(Len(src) - 1) :
    IsLineStart(p) /\ checkDef(getLine(From(src, p))) = n

BoolFields == {f \in 1..Len(shape.fields) : shape.fields[f].Kind = "bool"}

\* C20: after a successful parse into one record of a shape with a title and
\* boolean fields, a boolean field is true exactly if a marker line of its
\* name occurs in the document, whatever text follows the marker.
C20_BooleanByPresence ==
  (pc = "done" /\ Len(slice) = 1)
  => \A f \in BoolFields :
       slice[1][f] = MarkerOccurs(toSnakeCase(shape.fields[f].Name))

C20_Witness ==
  /\ pc = "done"
  /\ Len(slice) = 1
  /\ BoolFields # {}
  /\ slice[1][2] = TRUE
  /\ slice[1][3] = FALSE
  /\ \E k \in 1..Len(blocks) :
       /\ markers[k].name = <<"B">>
       /\ blocks[k].multi
       /\ blocks[k].text # <<>>

(***************************************************************************)
(* Integer fields.                                                         *)
(***************************************************************************)
IntFields == {f \in 1..Len(shape.fields) : shape.fields[f].Kind = "int"}

\* Marker k names the integer field f and reaches setVal: its block
\* expanded, a record is open and the field was not yet set in the record.
BindsInt(k, f) ==
  /\ f \in IntFields
  /\ markers[k].name = toSnakeCase(shape.fields[f].Name)
  /\ ~IsTitleMarker(markers[k])
  /\ markers[k].open
  /\ markers[k].xok
  /\ \A j \in 1..Len(markers) : ~Repeats(k, j)

\* t is an optional sign followed by one or more decimal digits.
IsNumeral(t) ==
  /\ t # <<>>
  /\ \A i \in 2..Len(t) : isDecimal(t[i])
  /\ \/ isDecimal(t[1])
     \/ t[1] \in {"+", "-"} /\ Len(t) >= 2

\* The digits of a numeral from its first digit that is not zero.
Significant(t) ==
  LET nz == {i \in 1..Len(t) : isDecimal(t[i]) /\ t[i] # "0"}
  IN  IF nz = {} THEN <<>>
      ELSE SubSeq(t, CHOOSE i \in nz : \A j \in nz : i <= j, Len(t))

\* The numeral t denotes a value from -2^63 to 2^63 - 1.
Fits64(t) ==
  LET d == Significant(t)
      m == MaxMagnitude(t[1] = "-")
  IN  \/ Len(d) < Len(m)
      \/ /\ Len(d) = Len(m)
         /\ \/ d = m
            \/ \E i \in 1..Len(d) :
                 /\ DigitVal(d[i]) < DigitVal(m[i])
                 /\ \A j \in 1..(i - 1) : d[j] = m[j]

RECURSIVE Pow10(_)
Pow10(n) == IF n = 0 THEN 1 ELSE 10 * Pow10(n - 1)

RECURSIVE Magnitude(_, _)
Magnitude(d, i) ==
  IF i > Len(d) THEN 0
  ELSE DigitVal(d[i]) * Pow10(Len(d) - i) + Magnitude(d, i + 1)

\* The value a numeral denotes.
NumValue(t) ==
  LET v == Magnitude(Significant(t), 1)
  IN  IF t[1] = "-" THEN 0 - v ELSE v

\* The parse failed at marker k with the invalid-value error for field f,
\* which is still zero.
InvalidValueAt(k, f) ==
  /\ k = Len(markers)
  /\ pc = "failed"
  /\ err.kind = "invalid value for struct field"
  /\ err.arg = shape.fields[f].Name
  /\ ~markers[k].bound
  /\ slice[markers[k].rec][f] = 0

\* C21 as stated: the trimmed text of an integer field's block is bound with
\* its value whenever it is an optional sign followed by decimal digits, and
\* makes the parse fail with the invalid-value error otherwise.
C21_Original ==
  \A k \in 1..Len(markers) : \A f \in 1..Len(shape.fields) :
    BindsInt(k, f)
    => LET t == TrimSpace(markers[k].text)
       IN  IF IsNumeral(t)
           THEN markers[k].bound
           ELSE InvalidValueAt(k, f)

\* C21 amended: when the marker of an integer field reaches the binding
\* step, the expanded text of its block is trimmed of surrounding whitespace;
\* if the result is an optional sign followed by decimal digits denoting a
\* value from -2^63 to 2^63 - 1, the field holds exactly that value, and
\* otherwise (no such numeral, or a numeral outside that range) the parse
\* fails with the invalid-value error naming the field and the field stays
\* unset.
C21_IntegerField ==
  \A k \in 1..Len(markers) : \A f \in 1..Len(shape.fields) :
    BindsInt(k, f)
    => LET t == TrimSpace(markers[k].text)
       IN  IF IsNumeral(t) /\ Fits64(t)
           THEN /\ markers[k].bound
                /\ slice[markers[k].rec][f] = NumValue(t)
           ELSE InvalidValueAt(k, f)

\* A numeral with a sign was bound, and a later record failed on a numeral
\* above the largest int64.
C21_Witness ==
  /\ pc = "failed"
  /\ err.kind = "invalid value for struct field"
  /\ IsNumeral(TrimSpace(Last.text))
  /\ \E k \in 1..Len(markers) :
       /\ markers[k].bound
       /\ BindsInt(k, 3)
       /\ markers[k].text[1] \in {"+", "-"}
       /\ slice[markers[k].rec][3] # 0

(***************************************************************************)
(* Invocations that run at the same time.                                  *)
(***************************************************************************)
\* The state of the first invocation.
MainState ==
  [shape |-> shape, src |-> src, rest |-> rest, templates |-> templates,
   slice |-> slice, el |-> el, seen |-> seen, tVal |-> tVal, first |-> first,
   pc |-> pc, err |-> err]

Finished(p) == p.pc \in {"done", "failed"}

\* The state in which the invocation p ends when it runs alone.
RECURSIVE RunAlone(_)
RunAlone(p) ==
  IF Finished(p) THEN p ELSE RunAlone(parseStep(p, p.templates))

\* The invocation that starts in p and runs alone passes through q.
RECURSIVE OnRun(_, _)
OnRun(q, p) ==
  \/ q = p
  \/ ~Finished(p) /\ OnRun(q, parseStep(p, p.templates))

\* C22: two invocations that parse different documents into different
\* record lists at the same time do not influence each other, however their
\* steps interleave: the cursor, the registry and the record list of each are
\* at every moment what they are at some moment when it runs alone, and each
\* ends with the records or the error with which it ends alone.
C22_Independent ==
  peer.pc # "none"
  => /\ OnRun(MainState, StateOf(shape, src))
     /\ OnRun(peer, StateOf(peer.shape, peer.src))
     /\ Finished(MainState) => MainState = RunAlone(StateOf(shape, src))
     /\ Finished(peer) => peer = RunAlone(StateOf(peer.shape, peer.src))

\* Both invocations registered a template z, each with its own body, and
\* the first one, which finished while the second one still runs, expanded
\* its call of z with its own body.
C22_Witness ==
  /\ pc = "done"
  /\ peer.pc = "loop"
  /\ DOMAIN templates = {<<"z">>}
  /\ DOMAIN peer.templates = {<<"z">>}
  /\ templates[<<"z">>] # peer.templates[<<"z">>]
  /\ slice[1][2] = templates[<<"z">>]

(***************************************************************************)
(* TEMPL markers.                                                          *)
(***************************************************************************)
IsTempl(k) == markers[k].name = TEMPL

\* The rest of the line of the TEMPL marker number k, without the blanks
\* around it.
NameOfTempl(k) ==
  LET p == markers[k].at + 7
  IN  TrimSpace(SubSeq(src, p + 1, LineEnd(p)))

\* n is one or more letters, digits and underscores.
IsIdentifier(n) ==
  /\ n # <<>>
  /\ \A i \in 1..Len(n) :
       n[i] \in LowerSet \cup UpperSet \cup DigitSet \cup {"_"}

\* The body read for the TEMPL marker number k: its block, expanded and
\* rewritten, without one trailing line end.
BodyOfTempl(k) == TrimSuffixNL(ExpandedOf(k))

\* The parse failed at marker k while expanding its block.
ExpansionFailedAt(k) ==
  /\ k = Len(markers)
  /\ pc = "failed"
  /\ err.kind \in ExpansionErrors

\* C23 as stated: a TEMPL marker with an empty name, a name that is no
\* identifier or an empty body makes the parse fail and leaves the registry
\* without an entry for that name.
C23_Original ==
  \A k \in 1..Len(markers) :
    ( /\ IsTempl(k)
      /\ \/ ~IsIdentifier(NameOfTempl(k))
         \/ ~ExpansionFailedAt(k) /\ BodyOfTempl(k) = <<>> )
    => /\ pc = "failed"
       /\ NameOfTempl(k) \notin DOMAIN templates

\* C23 amended: a TEMPL marker registers a template exactly if the rest of
\* its line, without the blanks around it, is a non-empty identifier and the
\* body that follows expands and, after the SUBST rules and the trimming of
\* one trailing newline, is non-empty; then the registry maps the name to
\* that body.  An empty name, a name with another character or an empty body
\* (also TEMPL at the end of the input) makes the parse fail with the error
\* of that case and leaves the registry as it was before the marker, with
\* the entry an earlier TEMPL of that name may have made.
C23_TemplRegisters ==
  \A k \in 1..Len(markers) :
    IsTempl(k)
    => LET n == NameOfTempl(k)
       IN  /\ markers[k].xok
             <=> ( /\ IsIdentifier(n)
                   /\ ~ExpansionFailedAt(k)
                   /\ BodyOfTempl(k) # <<>> )
           /\ (markers[k].xok /\ k = Len(markers))
              => (n \in DOMAIN templates /\ templates[n] = BodyOfTempl(k))
           /\ ~markers[k].xok
              => /\ k = Len(markers)
                 /\ pc = "failed"
                 /\ templates = RegAt(k - 1)
                 /\ IF n = <<>>
                    THEN err.kind = "missing name after =TEMPL="
                    ELSE IF ~IsIdentifier(n)
                    THEN err.kind = "invalid name after =TEMPL=" /\ err.arg = n
                    ELSE IF ExpansionFailedAt(k) THEN TRUE
                    ELSE /\ err.kind = "missing text after =TEMPL="
                         /\ err.arg = n
                         /\ Len(blocks) = k

\* A TEMPL whose body a SUBST line emptied failed, and the registry still
\* holds the body an earlier TEMPL of the same name registered.
C23_Witness ==
  /\ pc = "failed"
  /\ err.kind = "missing text after =TEMPL="
  /\ IsTempl(Len(markers))
  /\ RulesOf(Len(markers)) # <<>>
  /\ NameOfTempl(Len(markers)) \in DOMAIN templates

(***************************************************************************)
(* Blocks without template calls and SUBST lines.                          *)
(***************************************************************************)
\* Block k holds no "[[" and the line at which readText left the cursor is
\* no SUBST line.
PlainBlock(k) ==
  /\ ~Occurs(blocks[k].text, <<"[", "[">>)
  /\ checkDef(LineFrom(blocks[k].after)) # SUBST

\* C24: the expansion of a block whose raw text holds no "[[" and that is
\* not followed by a SUBST line succeeds and returns the raw text unchanged:
\* a field marker gets exactly the raw text, a TEMPL body is the raw text
\* without one trailing newline; no rule is recorded, the cursor stays where
\* the block reader left it, and the registry changes only by the entry a
\* TEMPL marker makes for itself.
C24_PlainBlockUnchanged ==
  \A k \in 1..Len(blocks) :
    PlainBlock(k)
    => /\ RulesOf(k) = <<>>
       /\ ~ExpansionFailedAt(k)
       /\ ExpandedOf(k) = blocks[k].text
       /\ IF IsTempl(k)
          THEN /\ markers[k].xok <=> TrimSuffixNL(blocks[k].text) # <<>>
               /\ (markers[k].xok /\ k = Len(markers))
                  => templates
                       = Override(RegAt(k - 1), NameOfTempl(k),
                                  TrimSuffixNL(blocks[k].text))
               /\ (~markers[k].xok) => templates = RegAt(k - 1)
          ELSE /\ markers[k].xok
               /\ markers[k].text = blocks[k].text
               /\ k = Len(markers) => templates = RegAt(k - 1)
       /\ k = Len(markers) => Off(rest) = blocks[k].after

\* With a template registered, a multi-line block without calls and rules
\* was bound with its raw text.
C24_Witness ==
  /\ pc = "loop"
  /\ Len(blocks) >= 1
  /\ Len(blocks) = Len(markers)
  /\ PlainBlock(Len(blocks))
  /\ blocks[Len(blocks)].multi
  /\ Last.bound
  /\ Last.text = blocks[Len(blocks)].text
  /\ Last.text # TrimSpace(Last.text)
  /\ DOMAIN templates # {}

(***************************************************************************)
(* The frame of a TEMPL marker.                                            *)
(***************************************************************************)
\* The main loop is about to read a marker line =TEMPL=.
AtTemplMarker ==
  /\ pc = "loop"
  /\ readDef(src, rest).ok
  /\ readDef(src, rest).name = <<"T", "E", "M", "P", "L">>

\* Errors of templDef itself.
TemplErrors ==
  {"missing name after =TEMPL=", "invalid name after =TEMPL=",
   "missing text after =TEMPL="}

\* C25: the step that handles a TEMPL marker changes only the registry and
\* the cursor: the record list, the open record and its fields, the set of
\* markers seen in it, the title value and the flag that no title was seen
\* yet stay as they are, the cursor moves forward, and the loop goes on
\* unless the definition is rejected with an error of templDef or of the
\* expansion of its body.
C25_TemplFrame ==
  [][ AtTemplMarker
      => /\ slice' = slice
         /\ el' = el
         /\ seen' = seen
         /\ tVal' = tVal
         /\ first' = first
         /\ Len(rest') < Len(rest)
         /\ \/ pc' = "loop" /\ err' = err
            \/ /\ pc' = "failed"
               /\ err'.kind \in TemplErrors \cup ExpansionErrors
               /\ templates' = templates ]_vars

\* A TEMPL marker was handled with a record open whose title and one more
\* field are set, and the record and the markers seen are as before.
C25_Witness ==
  /\ pc = "loop"
  /\ Len(markers) >= 3
  /\ Last.name = <<"T", "E", "M", "P", "L">>
  /\ Last.xok
  /\ DOMAIN templates # {}
  /\ ~first
  /\ Cardinality(seen) = 2
  /\ Len(slice) = 1
  /\ slice[1][1] = tVal
  /\ tVal # <<>>

(***************************************************************************)
(* Records that are closed.                                                *)
(***************************************************************************)
StartsRecord(m) == IsTitleMarker(m) /\ m.xok

\* Number of the record that is open after the markers ms: one record per
\* title marker whose block expanded, and the record made before the loop
\* when there is none yet.
OpenRecord(ms) ==
  IF SelectSeq(ms, StartsRecord) = <<>> THEN 1
  ELSE Len(SelectSeq(ms, StartsRecord))

\* C26: every step of the main loop leaves all records but the most
\* recently started one as they are, and that record is the last of the
\* list, also when the list has been grown by the step: a record is no
\* longer written once a title marker has started the next one.
C26_ClosedRecordsKept ==
  [][ pc = "loop"
      => /\ Len(slice') = OpenRecord(markers')
         /\ el' = Len(slice')
         /\ \A r \in 1..Len(slice) :
              r # OpenRecord(markers') => slice'[r] = slice[r] ]_vars

\* Two records were started and the second one got a field the first one
\* lacks, while the first one kept the field it had got.
C26_Witness ==
  /\ pc = "done"
  /\ Len(slice) = 2
  /\ slice[1][2] /\ ~slice[1][3]
  /\ ~slice[2][2] /\ slice[2][3]

(***************************************************************************)
(* The name and the data of a call.                                        *)
(***************************************************************************)
\* Block k, read for a field marker, holds exactly one call.
OneCall(k) ==
  /\ ~IsTempl(k)
  /\ Len(templRxFindAll(blocks[k].text, 1)) = 1

\* The call of such a block as the call pattern reads it: the identifier
\* after "[[", the run of whitespace after it, and the data up to "]]".
PatternCall(k) ==
  LET t  == blocks[k].text
      m  == templRxFindAll(t, 1)[1]
      nl == NameRun(t, m[1] + 3)
      sl == SpaceRun(t, m[1] + 3 + nl)
  IN  [pre  |-> Slice(t, 0, m[1]),
       name |-> Slice(t, m[1] + 2, m[1] + 2 + nl),
       data |-> Slice(t, m[1] + 2 + nl + sl, m[2] - 2),
       post |-> From(t, m[2])]

SubstErrors == {"invalid empty substitution", "invalid substitution"}

\* C27: a block with one call is expanded with the template registered for
\* the identifier that follows "[[" and with the data that follows the
\* whitespace after it, whatever whitespace the call pattern accepted there;
\* without data the template runs with no value, and the unknown-template
\* error names that identifier.
C27_NameAndData ==
  \A k \in 1..Len(blocks) :
    (OneCall(k) /\ ~(k = Len(markers) /\ err.kind \in SubstErrors))
    => LET c   == PatternCall(k)
           reg == RegAt(k - 1)
           y   == yamlUnmarshal(c.data)
       IN  /\ IsIdentifier(c.name)
           /\ IF ~y.ok
              THEN /\ ExpansionFailedAt(k)
                   /\ err.kind = "invalid YAML data"
                   /\ err.arg = c.name
              ELSE IF c.name \notin DOMAIN reg
              THEN /\ ExpansionFailedAt(k)
                   /\ err.kind = "calling unknown template"
                   /\ err.arg = c.name
              ELSE /\ markers[k].xok
                   /\ markers[k].text
                        = FoldRules(c.pre \o Execute(reg[c.name], y.data)
                                          \o c.post,
                                    RulesOf(k), 1)

(***************************************************************************)
(* Templates that call templates.                                          *)
(***************************************************************************)
\* Marker j registered a template.
Registers(j) == IsTempl(j) /\ markers[j].xok

\* Marker j is the last one before marker i that registered the name n.
LastDef(j, n, i) ==
  /\ j < i
  /\ Registers(j)
  /\ NameOfTempl(j) = n
  /\ \A h \in (j + 1)..(i - 1) : ~(Registers(h) /\ NameOfTempl(h) = n)

CallText(n) == <<"[", "[">> \o n \o <<"]", "]">>

\* The text after the call of n at the start of the one-line body t.
TailOf(t, n) == SubSeq(t, Len(CallText(n)) + 1, Len(t) - 1)

\* Marker jB registered a template whose body, read without SUBST lines, is
\* one line: a call of the template that marker jA registered, then text
\* without calls.
CallsInBody(jB, jA) ==
  /\ Registers(jB)
  /\ RulesOf(jB) = <<>>
  /\ LastDef(jA, NameOfTempl(jA), jB)
  /\ HasPrefixAt(blocks[jB].text, 1, CallText(NameOfTempl(jA)))
  /\ blocks[jB].text[Len(blocks[jB].text)] = "\n"
  /\ ~Occurs(TailOf(blocks[jB].text, NameOfTempl(jA)), <<"[", "[">>)
  /\ ~Occurs(TailOf(blocks[jB].text, NameOfTempl(jA)), <<"\n">>)

\* Marker i was bound to the block "[[B]]-[[A]]", read without SUBST lines,
\* where jB is the latest definition of B and jA2 the latest one of A.
CallsBoth(i, jB, jA2) ==
  /\ markers[i].bound
  /\ RulesOf(i) = <<>>
  /\ LastDef(jB, NameOfTempl(jB), i)
  /\ LastDef(jA2, NameOfTempl(jA2), i)
  /\ blocks[i].text = CallText(NameOfTempl(jB)) \o <<"-">>
                        \o CallText(NameOfTempl(jA2))

\* C28: the calls in the body of a template are expanded when the template
\* is registered: when B's body calls A, a later call of B gives the body A
\* had when B was registered followed by the rest of B's body, also when A
\* was registered again in between, while a call of A gives the body of the
\* latest registration of A.
C28_ExpandedAtDefinition ==
  \A i \in 1..Len(markers) : \A jB \in 1..Len(markers) :
    \A jA \in 1..Len(markers) : \A jA2 \in 1..Len(markers) :
      ( /\ jA < jB /\ jB < i /\ jA2 < i
        /\ Registers(jA) /\ Registers(jA2)
        /\ NameOfTempl(jA) = NameOfTempl(jA2)
        /\ CallsInBody(jB, jA)
        /\ CallsBoth(i, jB, jA2) )
      => markers[i].text
           = Execute(BodyOfTempl(jA), <<>>)
               \o TailOf(blocks[jB].text, NameOfTempl(jA))
               \o <<"-">> \o Execute(BodyOfTempl(jA2), <<>>)

\* A was registered, B was registered with a body that calls A, A was
\* registered again with another body, and a block that calls B and A was
\* bound.
C28_Witness ==
  \E i \in 1..Len(markers) : \E jB \in 1..Len(markers) :
    \E jA \in 1..Len(markers) : \E jA2 \in 1..Len(markers) :
      /\ jA < jB /\ jB < jA2 /\ jA2 < i
      /\ Registers(jA) /\ Registers(jA2)
      /\ NameOfTempl(jA) = NameOfTempl(jA2)
      /\ BodyOfTempl(jA) # BodyOfTempl(jA2)
      /\ CallsInBody(jB, jA)
      /\ CallsBoth(i, jB, jA2)
      /\ markers[i].text = <<"a", "c", "-", "b">>

(***************************************************************************)
(* Termination.                                                            *)
(***************************************************************************)
IsSuffix(a, b) == Len(a) <= Len(b) /\ a = From(b, Len(b) - Len(a))

\* From every offset of the document, the marker reader with its loop over
\* blank and comment lines, the block reader with its accumulation loop and
\* the loop over SUBST lines leave a cursor that is a suffix of the cursor
\* they started with.
LoopsAdvance ==
  \A p \in 0..Len(src) :
    /\ IsSuffix(readDef(src, From(src, p)).rest, From(src, p))
    /\ IsSuffix(readText(From(src, p)).rest, From(src, p))
    /\ IsSuffix(applySubst(<<>>, From(src, p), <<>>).rest, From(src, p))

\* C29: every parse ends with success or an error.  The cursor never moves
\* backward; each pass of the main loop consumes at least the three bytes
\* of a marker or ends the parse, so that the passes are bounded by the
\* length of the document; the inner loops leave the cursor at or behind
\* the place they started from; and the text bound for a marker is the
\* result of one pass over its block.
C29_Terminates ==
  /\ [][ /\ IsSuffix(rest', rest)
         /\ pc = "start" => LoopsAdvance
         /\ pc = "loop"
            => \/ pc' \in {"done", "failed"}
               \/ /\ pc' = "loop"
                  /\ Len(rest') + 3 <= Len(rest)
                  /\ 3 * Len(markers') <= Off(rest')
         /\ \A i \in 1..Len(markers') :
              (IsFieldMarker(markers'[i]) /\ markers'[i].xok)
              => markers'[i].text
                   = FoldRules(ExpandOnce(RegAt(i - 1)', blocks'[i].text, 1),
                               RulesOf(i)', 1) ]_vars
  /\ <>(pc \in {"done", "failed"})

\* A parse ended after blank and comment lines were skipped, a multi-line
\* block of two lines was read and a SUBST line put a call into the text,
\* which was bound as it is.
C29_Witness ==
  /\ pc \in {"done", "failed"}
  /\ Len(markers) >= 1
  /\ \E k \in 1..Len(blocks) :
       /\ blocks[k].multi
       /\ Count(blocks[k].text, "\n") >= 1
       /\ RulesOf(k) # <<>>
       /\ markers[k].xok
       /\ Occurs(FoldRules(blocks[k].text, RulesOf(k), 1), <<"[", "[">>)

(***************************************************************************)
(* =END= as a leading marker.                                              *)
(***************************************************************************)
END == <<"E", "N", "D">>

\* The parse failed at marker k with the given error about the marker END.
EndFailed(k, kind) ==
  /\ k = Len(markers)
  /\ pc = "failed"
  /\ err.kind = kind
  /\ err.arg = END
  /\ ~markers[k].bound

\* C30 as stated: an =END= line read as a leading marker makes the parse
\* fail with "unexpected =END=" or "must define =TITLE= before =END=" unless
\* the shape declares a field with the derived name END, in which case it is
\* bound to that field.
C30_Original ==
  \A k \in 1..Len(markers) :
    markers[k].name = END
    => IF Unknown(END)
       THEN EndFailed(k, "unexpected")
              \/ EndFailed(k, "must define title before")
       ELSE markers[k].bound

\* C30 amended: an =END= line read as a leading marker is handled as an
\* ordinary field marker named END: its block is read and expanded, and the
\* error of the expansion ends the parse; otherwise the parse fails with
\* "must define =TITLE= before =END=" when no title marker was read yet, and
\* with "unexpected =END=" when a record is open and the shape declares no
\* field with the derived name END; when it declares one, the text is bound
\* to that field of the open record, and a second END in the same record is
\* a duplicate.  An =END= line that closes a multi-line block is no marker
\* of the main loop.
C30_EndAsFieldMarker ==
  title # END
  => /\ \A k \in 1..Len(markers) :
          markers[k].name = END
          => IF ~markers[k].xok THEN ExpansionFailedAt(k)
             ELSE IF ~markers[k].open
             THEN EndFailed(k, "must define title before")
             ELSE IF Unknown(END) THEN EndFailed(k, "unexpected")
             ELSE IF \E j \in 1..Len(markers) : Repeats(k, j)
             THEN EndFailed(k, "found multiple")
             ELSE /\ markers[k].bound
                  /\ slice[markers[k].rec][fieldOf(shape.fields, END)]
                       = markers[k].text
     /\ \A k \in 1..Len(blocks) :
          EndClosed(k)
          => \A j \in 1..Len(markers) : markers[j].at # StopOf(k)

\* With a field named End declared, a title read as a multi-line block was
\* closed by an =END= line, and the =END= line after it was bound to the
\* field.
C30_Witness ==
  /\ pc = "done"
  /\ shape = EndDescr
  /\ Len(blocks) = 2
  /\ EndClosed(1)
  /\ markers[2].name = END
  /\ markers[2].bound
  /\ slice[1][2] = <<"x">>

====
